---------------------------- MODULE Spec2Model ----------------------------
(***************************************************************************)
(* LogiSketch: the industrial wizard (IndustrialApp.tsx) driving the       *)
(* WarehouseCanvas component (components/WarehouseCanvas.tsx).             *)
(*                                                                         *)
(* Numbers.  The source computes with JavaScript numbers.  Lengths,        *)
(* pixels and lighting values are held here as exact rationals <<n, d>>    *)
(* (d > 0, lowest terms), in the source's own units (metres, pixels).      *)
(* The zoom factor transform.scale is the one value the source multiplies  *)
(* without bound on the number of steps; it is held in units of            *)
(* 1/ScaleUnit and every product is rounded to the nearest unit, the way   *)
(* the source rounds every product to the nearest double.                  *)
(***************************************************************************)
EXTENDS Integers, Sequences, FiniteSets, TLC

----------------------------------------------------------------------------
(* Rational arithmetic (JavaScript number arithmetic on the values used).  *)

Abs(n) == IF n < 0 THEN -n ELSE n

RECURSIVE Gcd(_, _)
Gcd(a, b) == IF b = 0 THEN a ELSE Gcd(b, a % b)

\* n / d in lowest terms, d # 0
Rat(n, d) ==
    IF d = 1 THEN <<n, 1>>
    ELSE LET g == Gcd(Abs(n), Abs(d))
         IN  IF d < 0 THEN <<(-n) \div g, (-d) \div g>> ELSE <<n \div g, d \div g>>

Z(n) == <<n, 1>>

Lcm(a, b) == (a \div Gcd(a, b)) * b

\* a sum with an integer, or of two fractions of one denominator's multiple,
\* needs no search for a common denominator
QAdd(p, q) ==
    IF q[2] = 1 THEN <<p[1] + q[1] * p[2], p[2]>>
    ELSE IF p[2] = 1 THEN <<p[1] * q[2] + q[1], q[2]>>
    ELSE LET l == Lcm(p[2], q[2])
         IN  Rat(p[1] * (l \div p[2]) + q[1] * (l \div q[2]), l)

QNeg(p) == <<-p[1], p[2]>>

QSub(p, q) == QAdd(p, QNeg(q))

QMul(p, q) ==
    LET a == Rat(p[1], q[2])
        b == Rat(q[1], p[2])
    IN  <<a[1] * b[1], a[2] * b[2]>>

\* p / q for q # 0
QDiv(p, q) == QMul(p, Rat(q[2], q[1]))

QSign(p) == IF p[1] > 0 THEN 1 ELSE IF p[1] < 0 THEN -1 ELSE 0

\* the denominators are positive
QLt(p, q) == p[1] * q[2] < q[1] * p[2]

QLe(p, q) == p[1] * q[2] <= q[1] * p[2]

\* Math.min, Math.max
QMin(p, q) == IF QLe(p, q) THEN p ELSE q

QMax(p, q) == IF QLe(p, q) THEN q ELSE p

\* Math.floor
QFloor(p) == p[1] \div p[2]

\* Math.round: the nearest integer, a half rounding up
QRound(p) == (2 * p[1] + p[2]) \div (2 * p[2])

QIsInt(p) == p[2] = 1


----------------------------------------------------------------------------
(* Program constants.                                                      *)

\* IndustrialApp passes width={900} height={700} to the canvas
CANVAS_WIDTH == 900
CANVAS_HEIGHT == 700
\* const padding = 60 (getMetrics, drawScene2D)
PADDING == 60
\* const totalSteps = 5
TOTAL_STEPS == 5
\* const SNAP_INCREMENT = 0.5
SNAP_INCREMENT == <<1, 2>>
\* the sports buffer of 50 m
SPORTS_BUFFER == 50
\* resolution of transform.scale: one unit is 1/ScaleUnit
ScaleUnit == 1000
\* Math.min(Math.max(0.5, newScale), 10)
MIN_SCALE == ScaleUnit \div 2
MAX_SCALE == 10 * ScaleUnit
\* the canvas is used with its default mode prop
MODE == "INDUSTRIAL"

\* a null object id
Null == "null"

----------------------------------------------------------------------------
(* Bounds of the model and the inputs the handlers are tried with.         *)

\* racks the wizard may hold at once
MaxRacks == 1
\* zoom steps (wheel and zoom buttons together) since a view reset, in SpecCanvas
MaxZoomSteps == 1
\* zoom button clicks since a view reset, in SpecView
MaxViewZoomSteps == 13
\* wheel steps since a view reset, in SpecView
MaxWheelSteps == 1
\* |transform.x|, |transform.y| stay within this many pixels
MaxPan == 140
\* objects in the collection when the storage alone is followed
MaxStored == 3

\* values typed into the two site dimension fields (metres)
SiteDims == {Z(0), Z(10)}
\* values typed into the width field of the rack form
RackWidthInputs == {<<6, 5>>, Z(2)}

\* the canvas element's bounding rectangle on the page (CSS pixels): the
\* canvas is shown at half its pixel size
Rect == [left |-> 10, top |-> 20, width |-> 450, height |-> 350]

\* pointer positions (clientX, clientY) the pointer events are tried with:
\* the left edge of the canvas, a point over an object placed at (1, 1), and
\* a point past the far corner of the site
ClientPoints == { <<10, 105>>, <<150, 105>>, <<340, 365>> }
\* the two a drag across the site needs
DragPoints == { <<150, 105>>, <<340, 365>> }
\* the two a horizontal pan needs
PanPoints == { <<10, 105>>, <<150, 105>> }
\* e.button, e.altKey
Buttons == {0, 2}
\* e.deltaY
WheelDeltas == {-100, 100}

----------------------------------------------------------------------------
VARIABLES
    \* IndustrialApp state
    currentStep, data, summaryViewMode, inputMode, newRackDims, newMezzDims,
    \* WarehouseCanvas state
    dragTarget, hoveredBlockId, transform, isPanning, lastMousePos,
    \* what the last render effect drew on the canvas
    frame,
    \* the scenes drawn for the report image that was downloaded last
    report,
    \* zoom button clicks and wheel steps since the view was last reset
    \* (they bound the exploration)
    zoomSteps, wheelSteps,
    \* the handler that ran last and the onRackMove call it made, if any
    last

appVars == <<currentStep, data, summaryViewMode, inputMode, newRackDims, newMezzDims>>
canvasVars == <<dragTarget, hoveredBlockId, transform, isPanning, lastMousePos,
               zoomSteps, wheelSteps>>
vars == <<currentStep, data, summaryViewMode, inputMode, newRackDims, newMezzDims,
          dragTarget, hoveredBlockId, transform, isPanning, lastMousePos,
          frame, report, zoomSteps, wheelSteps, last>>

\* types.ts DEFAULT_PROJECT
DEFAULT_PROJECT ==
    [ projectName |-> "Novo Projeto",
      width |-> Z(0), length |-> Z(0), ceilingHeight |-> Z(0),
      lighting |-> [ isActive |-> TRUE, orientation |-> "LONGITUDINAL",
                     mode |-> "DISTANCE", value |-> Z(5), offset |-> Z(2),
                     fixtureQty |-> Z(0), fixturesPerProfile |-> Z(0) ],
      storage |-> [ isActive |-> FALSE, racks |-> <<>> ],
      luxRequired |-> 300,
      observations |-> "" ]

\* const canvasViewMode = currentStep === 1 ? '3D' : (currentStep === 5 ? summaryViewMode : '2D')
CanvasViewMode(step, summary) ==
    IF step = 1 THEN "3D" ELSE IF step = 5 THEN summary ELSE "2D"

viewMode == CanvasViewMode(currentStep, summaryViewMode)

\* a faulty variant of the definition that follows: the canvas is
\* interactive at every step
AlwaysInteractive == TRUE

\* isInteractive={currentStep === 3}
isInteractive == currentStep = 3

\* getObjects()
GetObjects(d) == IF MODE = "INDUSTRIAL" THEN d.storage.racks ELSE <<>>

----------------------------------------------------------------------------
(* IndustrialApp: the wizard's handlers.                                   *)

\* Math.random().toString(36).substr(2, 9): an id no object has.  The model
\* takes the first name that is in use nowhere (two random ids colliding is
\* not modelled).
RackIds == <<"r1", "r2", "r3", "r4", "r5", "r6">>

UsedIds ==
    { data.storage.racks[i].id : i \in 1..Len(data.storage.racks) }
        \cup { dragTarget[i].id : i \in 1..Len(dragTarget) }
        \cup { hoveredBlockId }

NewId ==
    LET free == { i \in 1..Len(RackIds) : RackIds[i] \notin UsedIds }
    IN  RackIds[CHOOSE i \in free : \A j \in free : i <= j]

\* racks.filter(r => r.type === t).length
CountType(racks, t) == Cardinality({ i \in 1..Len(racks) : racks[i].type = t })

\* nextStep: leaving step 1 puts the larger dimension in width
NextStep ==
    /\ currentStep < TOTAL_STEPS
    /\ data' = IF currentStep = 1 /\ QLt(data.width, data.length)
               THEN [data EXCEPT !.width = data.length, !.length = data.width]
               ELSE data
    /\ currentStep' = currentStep + 1
    /\ UNCHANGED <<summaryViewMode, inputMode, newRackDims, newMezzDims>>

\* prevStep
PrevStep ==
    /\ currentStep > 1
    /\ currentStep' = currentStep - 1
    /\ UNCHANGED <<data, summaryViewMode, inputMode, newRackDims, newMezzDims>>

\* handleNewProject (the button of step 5)
HandleNewProject ==
    /\ currentStep = TOTAL_STEPS
    /\ data' = DEFAULT_PROJECT
    /\ currentStep' = 1
    /\ summaryViewMode' = "2D"
    /\ newRackDims' = [w |-> <<6, 5>>, d |-> Z(1), h |-> Z(2)]
    /\ newMezzDims' = [w |-> Z(5), d |-> Z(5), el |-> Z(3)]
    /\ inputMode' = "RACK"

\* the two dimension fields of step 1
SetWidth(v) ==
    /\ currentStep = 1
    /\ data' = [data EXCEPT !.width = v]
    /\ UNCHANGED <<currentStep, summaryViewMode, inputMode, newRackDims, newMezzDims>>

SetLength(v) ==
    /\ currentStep = 1
    /\ data' = [data EXCEPT !.length = v]
    /\ UNCHANGED <<currentStep, summaryViewMode, inputMode, newRackDims, newMezzDims>>

\* the 2D / 3D toggle of the summary
SetSummaryViewMode(m) ==
    /\ currentStep = TOTAL_STEPS
    /\ summaryViewMode' = m
    /\ UNCHANGED <<currentStep, data, inputMode, newRackDims, newMezzDims>>

\* the width field of step 3 writes the form of the current input mode
SetNewWidth(v) ==
    /\ currentStep = 3
    /\ IF inputMode = "MEZZANINE"
       THEN /\ newMezzDims' = [newMezzDims EXCEPT !.w = v]
            /\ UNCHANGED newRackDims
       ELSE /\ newRackDims' = [newRackDims EXCEPT !.w = v]
            /\ UNCHANGED newMezzDims
    /\ UNCHANGED <<currentStep, data, summaryViewMode, inputMode>>

\* the length field of step 3
SetNewDepth(v) ==
    /\ currentStep = 3
    /\ IF inputMode = "MEZZANINE"
       THEN /\ newMezzDims' = [newMezzDims EXCEPT !.d = v]
            /\ UNCHANGED newRackDims
       ELSE /\ newRackDims' = [newRackDims EXCEPT !.d = v]
            /\ UNCHANGED newMezzDims
    /\ UNCHANGED <<currentStep, data, summaryViewMode, inputMode>>

\* the object handleAddObject builds, placed at (1, 1)
NewBlock ==
    LET isMezzanine == inputMode = "MEZZANINE"
        racks == data.storage.racks
    IN  [ id |-> NewId,
          type |-> inputMode,
          x |-> Z(1),
          y |-> Z(1),
          width |-> IF isMezzanine THEN newMezzDims.w ELSE newRackDims.w,
          depth |-> IF isMezzanine THEN newMezzDims.d ELSE newRackDims.d,
          height |-> IF isMezzanine THEN <<1, 5>> ELSE newRackDims.h,
          elevation |-> IF isMezzanine THEN newMezzDims.el ELSE Z(0),
          label |-> IF isMezzanine
                    THEN <<"M", CountType(racks, "MEZZANINE") + 1>>
                    ELSE <<"B", CountType(racks, "RACK") + 1>> ]

\* a faulty variant of the definition that follows: the width alone is tested
AddAcceptedWidthOnly(b) == ~ QLe(b.width, Z(0))

\* if (w <= 0 || d <= 0) return
AddAccepted(b) == ~ (QLe(b.width, Z(0)) \/ QLe(b.depth, Z(0)))

\* handleAddObject, while the collection has fewer than max objects
AddObject(max) ==
    /\ currentStep = 3
    /\ Len(data.storage.racks) < max
    /\ data' = IF AddAccepted(NewBlock)
               THEN [data EXCEPT !.storage.isActive = TRUE,
                                 !.storage.racks = Append(@, NewBlock)]
               ELSE data
    /\ UNCHANGED <<currentStep, summaryViewMode, inputMode, newRackDims, newMezzDims>>

HandleAddObject == AddObject(MaxRacks)

\* a faulty variant of the definition that follows: every object is moved
MoveRackAll(racks, id, x, y) ==
    [ i \in 1..Len(racks) |-> [racks[i] EXCEPT !.x = x, !.y = y] ]

\* racks.map(r => r.id === id ? { ...r, x, y } : r)
RECURSIVE MoveRack(_, _, _, _)
MoveRack(racks, id, x, y) ==
    IF racks = <<>> THEN <<>>
    ELSE <<IF Head(racks).id = id
           THEN [Head(racks) EXCEPT !.x = x, !.y = y]
           ELSE Head(racks)>> \o MoveRack(Tail(racks), id, x, y)

\* handleRackMove
HandleRackMove(d, id, x, y) ==
    [d EXCEPT !.storage.racks = MoveRack(@, id, x, y)]

\* racks.filter(r => r.id !== id)
RECURSIVE FilterOut(_, _)
FilterOut(racks, id) ==
    IF racks = <<>> THEN <<>>
    ELSE IF Head(racks).id = id THEN FilterOut(Tail(racks), id)
         ELSE <<Head(racks)>> \o FilterOut(Tail(racks), id)

\* a faulty variant of the definition that follows: the storage stays active
\* when the last object is removed
RemoveRackStaysActive(id) ==
    /\ currentStep = 3
    /\ \E i \in 1..Len(data.storage.racks) : data.storage.racks[i].id = id
    /\ data' = [data EXCEPT !.storage.racks = FilterOut(@, id),
                            !.storage.isActive = Len(data.storage.racks) > 0]
    /\ UNCHANGED <<currentStep, summaryViewMode, inputMode, newRackDims, newMezzDims>>

\* removeRack (the trash button of a list item of step 3)
RemoveRack(id) ==
    /\ currentStep = 3
    /\ \E i \in 1..Len(data.storage.racks) : data.storage.racks[i].id = id
    /\ data' = [data EXCEPT !.storage.racks = FilterOut(@, id),
                            !.storage.isActive = Len(data.storage.racks) > 1]
    /\ UNCHANGED <<currentStep, summaryViewMode, inputMode, newRackDims, newMezzDims>>

\* resetStorage ("Limpar Tudo", shown while there are items)
ResetStorage ==
    /\ currentStep = 3
    /\ Len(data.storage.racks) > 0
    /\ data' = [data EXCEPT !.storage.racks = <<>>, !.storage.isActive = FALSE]
    /\ UNCHANGED <<currentStep, summaryViewMode, inputMode, newRackDims, newMezzDims>>

----------------------------------------------------------------------------
(* WarehouseCanvas: metrics, coordinates, hit test.                        *)

\* transform.scale as a number
ScaleQ(sc) == Rat(sc, ScaleUnit)

\* data.width || 1
OrOne(v) == IF v = Z(0) THEN Z(1) ELSE v

\* getMetrics (the same arithmetic opens drawScene2D)
GetMetrics(d, t) ==
    LET availableWidth == Z(CANVAS_WIDTH - PADDING * 2)
        availableHeight == Z(CANVAS_HEIGHT - PADDING * 2)
        baseScaleX == QDiv(availableWidth, OrOne(d.width))
        baseScaleY == QDiv(availableHeight, OrOne(d.length))
        baseScale == QMin(baseScaleX, baseScaleY)
        finalScale == QMul(baseScale, ScaleQ(t.scale))
        drawWidth == QMul(d.width, finalScale)
        drawLength == QMul(d.length, finalScale)
    IN  [ scale |-> finalScale,
          originX |-> QAdd(QDiv(QSub(Z(CANVAS_WIDTH), drawWidth), Z(2)), Z(t.x)),
          originY |-> QAdd(QDiv(QSub(Z(CANVAS_HEIGHT), drawLength), Z(2)), Z(t.y)),
          drawWidth |-> drawWidth,
          drawLength |-> drawLength ]

\* getCanvasCoordinates
GetCanvasCoordinates(e) ==
    LET scaleX == Rat(CANVAS_WIDTH, Rect.width)
        scaleY == Rat(CANVAS_HEIGHT, Rect.height)
    IN  [ x |-> QMul(Z(e.clientX - Rect.left), scaleX),
          y |-> QMul(Z(e.clientY - Rect.top), scaleY) ]

\* the hit test of one object (HIT_PADDING = 0)
Hit(obj, metrics, mouseX, mouseY) ==
    LET pxX == QAdd(metrics.originX, QMul(obj.x, metrics.scale))
        pxY == QAdd(metrics.originY, QMul(obj.y, metrics.scale))
        pxW == QMul(obj.width, metrics.scale)
        pxH == QMul(obj.depth, metrics.scale)
    IN  /\ QLe(pxX, mouseX) /\ QLe(mouseX, QAdd(pxX, pxW))
        /\ QLe(pxY, mouseY) /\ QLe(mouseY, QAdd(pxY, pxH))

\* a faulty variant of the definition that follows: the first object hit
FindHitFirst(objects, metrics, mouseX, mouseY) ==
    LET hits == { i \in 1..Len(objects) : Hit(objects[i], metrics, mouseX, mouseY) }
    IN  IF hits = {} THEN 0 ELSE CHOOSE i \in hits : \A j \in hits : i <= j

\* [...objects].reverse().find(hit): the index of the last object hit, or 0
FindHit(objects, metrics, mouseX, mouseY) ==
    LET hits == { i \in 1..Len(objects) : Hit(objects[i], metrics, mouseX, mouseY) }
    IN  IF hits = {} THEN 0 ELSE CHOOSE i \in hits : \A j \in hits : j <= i

\* a faulty variant of the definition that follows: when no object has the
\* id, the first object is taken
FindByIdOrFirst(objects, id) ==
    LET found == { i \in 1..Len(objects) : objects[i].id = id }
    IN  IF found = {} THEN (IF objects = <<>> THEN 0 ELSE 1)
        ELSE CHOOSE i \in found : \A j \in found : i <= j

\* objects.find(r => r.id === id): the index of the first such object, or 0
FindById(objects, id) ==
    LET found == { i \in 1..Len(objects) : objects[i].id = id }
    IN  IF found = {} THEN 0 ELSE CHOOSE i \in found : \A j \in found : i <= j

\* Faulty variants of the definitions that follow; the properties of the
\* drag tell each of them from the program.
\* no snapping
SnapNone(m) == m
\* the upper limit alone
ClampXNoFloor(mode, d, obj, xMeters) == QMin(xMeters, QSub(d.width, obj.width))

\* Math.round(m / SNAP_INCREMENT) * SNAP_INCREMENT
Snap(m) == QMul(Z(QRound(QDiv(m, SNAP_INCREMENT))), SNAP_INCREMENT)

\* Math.max(lo, Math.min(v, hi))
Clamp(lo, v, hi) == QMax(lo, QMin(v, hi))

\* the limits handleMouseMove applies to a snapped position
ClampX(mode, d, obj, xMeters) ==
    IF mode = "SPORTS"
    THEN Clamp(Z(-SPORTS_BUFFER), xMeters, QAdd(d.width, Z(SPORTS_BUFFER)))
    ELSE Clamp(Z(0), xMeters, QSub(d.width, obj.width))

ClampY(mode, d, obj, yMeters) ==
    IF mode = "SPORTS"
    THEN Clamp(Z(-SPORTS_BUFFER), yMeters, QAdd(d.length, Z(SPORTS_BUFFER)))
    ELSE Clamp(Z(0), yMeters, QSub(d.length, obj.depth))

----------------------------------------------------------------------------
(* WarehouseCanvas: the pointer and wheel handlers.                        *)

Note(op, call, info) == [op |-> op, call |-> call, info |-> info]

\* In the two handlers below a constant of the source (const metrics = ...)
\* is a variable bound over a one-element set, which names its value.

\* handleMouseDown
HandleMouseDown(e) ==
    /\ last' = Note("other", <<>>, IF viewMode = "3D" THEN <<"view3D", "mouseDown">> ELSE <<"none">>)
    /\ UNCHANGED <<appVars, hoveredBlockId, transform, zoomSteps, wheelSteps>>
    /\ IF viewMode = "3D"
       THEN UNCHANGED <<dragTarget, isPanning, lastMousePos>>
       ELSE IF e.button = 1 \/ e.button = 2 \/ e.altKey
       THEN /\ isPanning' = TRUE
            /\ lastMousePos' = [x |-> e.clientX, y |-> e.clientY]
            /\ UNCHANGED dragTarget
       ELSE IF ~ isInteractive
       THEN UNCHANGED <<dragTarget, isPanning, lastMousePos>>
       ELSE \E metrics \in {GetMetrics(data, transform)}, mouse \in {GetCanvasCoordinates(e)} :
            \E hit \in {FindHit(GetObjects(data), metrics, mouse.x, mouse.y)} :
                /\ dragTarget' =
                     IF hit # 0
                     THEN LET clickedObj == GetObjects(data)[hit]
                              rackPxX == QAdd(metrics.originX, QMul(clickedObj.x, metrics.scale))
                              rackPxY == QAdd(metrics.originY, QMul(clickedObj.y, metrics.scale))
                          IN  << [ id |-> clickedObj.id,
                                   offsetX |-> QSub(mouse.x, rackPxX),
                                   offsetY |-> QSub(mouse.y, rackPxY) ] >>
                     ELSE dragTarget
                /\ UNCHANGED <<isPanning, lastMousePos>>

\* getX, getY of drawScene2D: origin + toPx(meters)
GetPx(origin, scale, meters) == QAdd(origin, QMul(meters, scale))

\* a faulty variant of the definition that follows: the origin is not taken off
ToMetersNoOrigin(raw, origin, scale) == QDiv(raw, scale)

\* (rawX - metrics.originX) / metrics.scale
ToMeters(raw, origin, scale) == QDiv(QSub(raw, origin), scale)

\* the position handleMouseMove computes for the dragged object, snapped to
\* the grid and not yet clamped
SnappedAt(mouseC, offset, origin, scale) ==
    Snap(ToMeters(QSub(mouseC, offset), origin, scale))

\* handleMouseMove, and the handleRackMove it calls through onRackMove
HandleMouseMove(e) ==
    /\ UNCHANGED <<currentStep, summaryViewMode, inputMode, newRackDims, newMezzDims,
                   dragTarget, isPanning, zoomSteps, wheelSteps>>
    /\ IF viewMode = "3D"
       THEN /\ UNCHANGED <<data, hoveredBlockId, transform, lastMousePos>>
            /\ last' = Note("other", <<>>, <<"view3D", "mouseMove">>)
       ELSE IF isPanning
       THEN LET dx == e.clientX - lastMousePos.x
                dy == e.clientY - lastMousePos.y
            IN  /\ Abs(transform.x + dx) <= MaxPan
                /\ Abs(transform.y + dy) <= MaxPan
                /\ transform' = [transform EXCEPT !.x = @ + dx, !.y = @ + dy]
                /\ lastMousePos' = [x |-> e.clientX, y |-> e.clientY]
                /\ last' = Note("mouseMove", <<>>, <<"pan", dx, dy>>)
                /\ UNCHANGED <<data, hoveredBlockId>>
       ELSE IF ~ isInteractive
       THEN /\ UNCHANGED <<data, hoveredBlockId, transform, lastMousePos>>
            /\ last' = Note("mouseMove", <<>>, <<"ignored">>)
       ELSE \E metrics \in {GetMetrics(data, transform)}, mouse \in {GetCanvasCoordinates(e)} :
            IF dragTarget # <<>>
            THEN \E snapX \in {SnappedAt(mouse.x, dragTarget[1].offsetX, metrics.originX, metrics.scale)},
                    snapY \in {SnappedAt(mouse.y, dragTarget[1].offsetY, metrics.originY, metrics.scale)},
                    found \in {FindById(GetObjects(data), dragTarget[1].id)} :
                     /\ UNCHANGED <<hoveredBlockId, transform, lastMousePos>>
                     /\ IF found # 0
                        THEN \E xMeters \in {ClampX(MODE, data, GetObjects(data)[found], snapX)},
                                yMeters \in {ClampY(MODE, data, GetObjects(data)[found], snapY)} :
                                 /\ data' = HandleRackMove(data, dragTarget[1].id, xMeters, yMeters)
                                 /\ last' = Note("mouseMove",
                                                 << [id |-> dragTarget[1].id, x |-> xMeters, y |-> yMeters] >>,
                                                 <<"drag", snapX, snapY>>)
                        ELSE /\ UNCHANGED data
                             /\ last' = Note("mouseMove", <<>>, <<"skipped">>)
            ELSE \E hovered \in {FindHit(GetObjects(data), metrics, mouse.x, mouse.y)} :
                     /\ hoveredBlockId' = IF hovered # 0 THEN GetObjects(data)[hovered].id ELSE Null
                     /\ last' = Note("other", <<>>, <<"none">>)
                     /\ UNCHANGED <<data, transform, lastMousePos>>

\* a faulty variant of the handler that follows: it ends the drag session alone
MouseUpKeepsPan ==
    /\ dragTarget' = <<>>
    /\ UNCHANGED <<appVars, hoveredBlockId, transform, isPanning, lastMousePos,
                   zoomSteps, wheelSteps>>

\* handleMouseUp, bound to onMouseUp and to onMouseLeave
MouseUpBody ==
    /\ dragTarget' = <<>>
    /\ isPanning' = FALSE
    /\ UNCHANGED <<appVars, hoveredBlockId, transform, lastMousePos, zoomSteps, wheelSteps>>

HandleMouseUp ==
    /\ MouseUpBody
    /\ last' = Note("mouseUp", <<>>, <<"ended", dragTarget # <<>>, isPanning>>)

HandleMouseLeave ==
    /\ MouseUpBody
    /\ last' = Note("mouseLeave", <<>>, <<"ended", dragTarget # <<>>, isPanning>>)

\* a product of transform.scale, rounded to the nearest unit
ScaleTimes(sc, n, d) == (2 * sc * n + d) \div (2 * d)

Min(a, b) == IF a <= b THEN a ELSE b
Max(a, b) == IF a >= b THEN a ELSE b

\* the scale handleWheel sets: zoomFactor = 1.1, clamped to [0.5, 10]
WheelScale(sc, deltaY) ==
    LET delta == -deltaY
        newScale == IF delta > 0 THEN ScaleTimes(sc, 11, 10) ELSE ScaleTimes(sc, 10, 11)
    IN  Min(Max(MIN_SCALE, newScale), MAX_SCALE)

\* a faulty variant of the handler that follows: the view mode is not tested
HandleWheelAnyView(deltaY, within) ==
    /\ within
    /\ last' = Note("other", <<>>, IF viewMode = "3D" THEN <<"view3D", "wheel">> ELSE <<"none">>)
    /\ UNCHANGED <<appVars, dragTarget, hoveredBlockId, isPanning, lastMousePos, zoomSteps>>
    /\ transform' = [transform EXCEPT !.scale = WheelScale(transform.scale, deltaY)]
    /\ wheelSteps' = wheelSteps + 1

\* handleWheel
HandleWheel(deltaY, within) ==
    /\ within
    /\ last' = Note("other", <<>>, IF viewMode = "3D" THEN <<"view3D", "wheel">> ELSE <<"none">>)
    /\ UNCHANGED <<appVars, dragTarget, hoveredBlockId, isPanning, lastMousePos, zoomSteps>>
    /\ IF viewMode = "3D"
       THEN UNCHANGED <<transform, wheelSteps>>
       ELSE /\ transform' = [transform EXCEPT !.scale = WheelScale(transform.scale, deltaY)]
            /\ wheelSteps' = wheelSteps + 1

\* a faulty variant of ZoomOutScale: no lower limit
ZoomOutUnclamped(sc) == ScaleTimes(sc, 5, 6)

\* the scales the zoom buttons set
ZoomInScale(sc) == Min(ScaleTimes(sc, 6, 5), MAX_SCALE)

ZoomOutScale(sc) == Max(ScaleTimes(sc, 5, 6), MIN_SCALE)

\* the three buttons shown over the canvas while viewMode is 2D
ZoomInClick(within) ==
    /\ viewMode = "2D"
    /\ within
    /\ transform' = [transform EXCEPT !.scale = ZoomInScale(@)]
    /\ zoomSteps' = zoomSteps + 1
    /\ last' = Note("other", <<>>, <<"none">>)
    /\ UNCHANGED <<appVars, dragTarget, hoveredBlockId, isPanning, lastMousePos, wheelSteps>>

ZoomOutClick(within) ==
    /\ viewMode = "2D"
    /\ within
    /\ transform' = [transform EXCEPT !.scale = ZoomOutScale(@)]
    /\ zoomSteps' = zoomSteps + 1
    /\ last' = Note("other", <<>>, <<"none">>)
    /\ UNCHANGED <<appVars, dragTarget, hoveredBlockId, isPanning, lastMousePos, wheelSteps>>

ResetViewClick ==
    /\ viewMode = "2D"
    /\ transform' = [scale |-> ScaleUnit, x |-> 0, y |-> 0]
    /\ zoomSteps' = 0
    /\ wheelSteps' = 0
    /\ last' = Note("other", <<>>, <<"none">>)
    /\ UNCHANGED <<appVars, dragTarget, hoveredBlockId, isPanning, lastMousePos>>

----------------------------------------------------------------------------
(* drawScene2D: the lighting layout.                                       *)

\* for (let i = 0; i < count; i++) push(start + i * step), from index i on
RECURSIVE Stepped(_, _, _, _)
Stepped(start, step, i, count) ==
    IF ~ QLt(Z(i), count) THEN <<>>
    ELSE <<QAdd(start, QMul(Z(i), step))>> \o Stepped(start, step, i + 1, count)

\* Faulty variants of the definitions that follow; the properties of the
\* lighting layout tell each of them from the program.
\* the span is not centred
DistanceStartAtOffset(offset, available, span) == offset
\* the space is divided among the profiles, not among the gaps between them
QuantityStepPerProfile(availableSpace, value) == QDiv(availableSpace, value)
\* the offset is taken off one end only
AvailableSpaceOneEnd(axisLimit, offset) == QSub(axisLimit, offset)
\* no least quantity
NO_MIN_QUANTITY == Z(0)

\* the 0.01 of "if (value > 0.01)"
MIN_DISTANCE == <<1, 100>>

\* the 1 of "if (value >= 1)"
MIN_QUANTITY == Z(1)

\* axisLimit - (offset * 2)
AvailableSpace(axisLimit, offset) == QSub(axisLimit, QMul(offset, Z(2)))

\* const step = availableSpace / (value - 1)
QuantityStep(availableSpace, value) == QDiv(availableSpace, QSub(value, Z(1)))

\* const start = offset + ((available - span) / 2)
DistanceStart(offset, available, span) == QAdd(offset, QDiv(QSub(available, span), Z(2)))

\* profilePositions
ProfilePositions(l, axisLimit) ==
    IF l.mode = "QUANTITY"
    THEN IF QLe(MIN_QUANTITY, l.value)
         THEN IF l.value = Z(1)
              THEN <<QDiv(axisLimit, Z(2))>>
              ELSE LET availableSpace == AvailableSpace(axisLimit, l.offset)
                       step == QuantityStep(availableSpace, l.value)
                   IN  Stepped(l.offset, step, 0, l.value)
         ELSE <<>>
    ELSE IF QLt(MIN_DISTANCE, l.value)
         THEN LET available == AvailableSpace(axisLimit, l.offset)
              IN  IF QLe(Z(0), available)
                  THEN LET intervals == QFloor(QDiv(available, l.value))
                           count == intervals + 1
                           span == QMul(Z(intervals), l.value)
                           start == DistanceStart(l.offset, available, span)
                       IN  IF count > 0 THEN Stepped(start, l.value, 0, Z(count)) ELSE <<>>
                  ELSE <<>>
         ELSE <<>>

\* a faulty variant of the definition that follows: every position is drawn
ProfileLinesAll(positions, axisLimit) == positions

\* profilePositions.forEach(pos => { if (pos > axisLimit) return; line })
RECURSIVE ProfileLines(_, _)
ProfileLines(positions, axisLimit) ==
    IF positions = <<>> THEN <<>>
    ELSE IF QLt(axisLimit, Head(positions)) THEN ProfileLines(Tail(positions), axisLimit)
         ELSE <<Head(positions)>> \o ProfileLines(Tail(positions), axisLimit)

\* a faulty variant of the definition that follows: no margin at the ends
RECURSIVE FixturesOfNoMargin(_, _, _, _, _)
FixturesOfNoMargin(pos, i, fixturesPerProfile, profileLength, isLongitudinal) ==
    IF ~ QLt(Z(i), fixturesPerProfile) THEN <<>>
    ELSE LET step == IF QLt(Z(1), fixturesPerProfile)
                     THEN QDiv(profileLength, QSub(fixturesPerProfile, Z(1)))
                     ELSE Z(0)
             distAlong == IF fixturesPerProfile = Z(1)
                          THEN QDiv(profileLength, Z(2))
                          ELSE QMul(Z(i), step)
         IN  <<IF isLongitudinal THEN <<pos, distAlong>> ELSE <<distAlong, pos>>>>
                 \o FixturesOfNoMargin(pos, i + 1, fixturesPerProfile, profileLength, isLongitudinal)

\* the fixtures of one profile
RECURSIVE FixturesOf(_, _, _, _, _)
FixturesOf(pos, i, fixturesPerProfile, profileLength, isLongitudinal) ==
    IF ~ QLt(Z(i), fixturesPerProfile) THEN <<>>
    ELSE LET margin == Z(1)
             usableLen == QSub(profileLength, QMul(margin, Z(2)))
             step == IF QLt(Z(1), fixturesPerProfile)
                     THEN QDiv(usableLen, QSub(fixturesPerProfile, Z(1)))
                     ELSE Z(0)
             distAlong == IF fixturesPerProfile = Z(1)
                          THEN QDiv(profileLength, Z(2))
                          ELSE QAdd(margin, QMul(Z(i), step))
         IN  <<IF isLongitudinal THEN <<pos, distAlong>> ELSE <<distAlong, pos>>>>
                 \o FixturesOf(pos, i + 1, fixturesPerProfile, profileLength, isLongitudinal)

\* the fixtures of all profiles
RECURSIVE Fixtures(_, _, _, _)
Fixtures(positions, fixturesPerProfile, profileLength, isLongitudinal) ==
    IF positions = <<>> \/ ~ QLt(Z(0), fixturesPerProfile) THEN <<>>
    ELSE FixturesOf(Head(positions), 0, fixturesPerProfile, profileLength, isLongitudinal)
             \o Fixtures(Tail(positions), fixturesPerProfile, profileLength, isLongitudinal)

\* the axis the profiles are spread along
AxisLimit(d) == IF d.lighting.orientation = "LONGITUDINAL" THEN d.width ELSE d.length

NoLighting == [profilePositions |-> <<>>, profileLines |-> <<>>, fixtures |-> <<>>]

\* the "Lighting (Industrial Only)" block of drawScene2D
DrawLighting(d) ==
    IF MODE = "INDUSTRIAL" /\ d.lighting.isActive
    THEN LET isLongitudinal == d.lighting.orientation = "LONGITUDINAL"
             axisLimit == AxisLimit(d)
             profilePositions == ProfilePositions(d.lighting, axisLimit)
             profileLength == IF isLongitudinal THEN d.length ELSE d.width
         IN  [ profilePositions |-> profilePositions,
               profileLines |-> ProfileLines(profilePositions, axisLimit),
               fixtures |-> Fixtures(profilePositions, d.lighting.fixturesPerProfile,
                                     profileLength, isLongitudinal) ]
    ELSE NoLighting

----------------------------------------------------------------------------
(* WarehouseCanvas: the objects and their dimension lines in drawScene2D.  *)

\* const OFFSET = 35 (pixels between an object and its wall dimension lines)
OFFSET == 35

\* const EPSILON = 0.05
EPSILON == <<1, 20>>

\* v.toFixed(2), as a number
ToFixed2(v) == Rat(QRound(QMul(v, Z(100))), 100)

\* the place of objects[i] after a stable sort by keys
SortRank(keys, i) ==
    Cardinality({ j \in 1..Len(keys) :
                    QLt(keys[j], keys[i]) \/ (keys[j] = keys[i] /\ j < i) })

\* [...objects].sort((a, b) => key(a) - key(b)), keys[i] being key(objects[i])
SortedBy(objects, keys) ==
    [ k \in 1..Len(objects) |->
        objects[CHOOSE i \in 1..Len(objects) : SortRank(keys, i) = k - 1] ]

\* a faulty variant of the definition that follows: the order of the
\* collection
Unsorted(objects) == objects

\* the objects in the order drawScene2D draws them
SortedForDrawing(objects) ==
    SortedBy(objects, [ i \in 1..Len(objects) |-> objects[i].elevation ])

\* the objects in the order drawScene3D draws them
SortedObjects(objects) ==
    SortedBy(objects, [ i \in 1..Len(objects) |->
                          QAdd(QAdd(objects[i].x, objects[i].y), objects[i].elevation) ])

\* objects.filter(o => o.id !== obj.id)
OtherObjects(objects, obj) == SelectSeq(objects, LAMBDA o : o.id # obj.id)

\* Math.max(0, Math.min(a1, b1) - Math.max(a0, b0) + EPSILON)
Overlap(a0, a1, b0, b1) ==
    QMax(Z(0), QAdd(QSub(QMin(a1, b1), QMax(a0, b0)), EPSILON))

\* vertOverlap, horzOverlap of the dragged object and another
VertOverlap(obj, other) ==
    Overlap(obj.y, QAdd(obj.y, obj.depth), other.y, QAdd(other.y, other.depth))

HorzOverlap(obj, other) ==
    Overlap(obj.x, QAdd(obj.x, obj.width), other.x, QAdd(other.x, other.width))

Sides == <<"right", "left", "bottom", "top">>

\* the tests "Neighbor is to the Right", "... Left", "... Below", "... Above"
OnSide(side, obj, other) ==
    CASE side = "right"  -> /\ QLt(Z(0), VertOverlap(obj, other))
                            /\ QLe(QAdd(obj.x, obj.width), other.x)
      [] side = "left"   -> /\ QLt(Z(0), VertOverlap(obj, other))
                            /\ QLe(QAdd(other.x, other.width), obj.x)
      [] side = "bottom" -> /\ QLt(Z(0), HorzOverlap(obj, other))
                            /\ QLe(QAdd(obj.y, obj.depth), other.y)
      [] side = "top"    -> /\ QLt(Z(0), HorzOverlap(obj, other))
                            /\ QLe(QAdd(other.y, other.depth), obj.y)

\* a faulty variant of the definition that follows: the gap to the left is
\* measured to the near edge of the neighbour's far side
SideGapNoWidth(side, obj, other) ==
    CASE side = "right"  -> QSub(other.x, QAdd(obj.x, obj.width))
      [] side = "left"   -> QSub(obj.x, other.x)
      [] side = "bottom" -> QSub(other.y, QAdd(obj.y, obj.depth))
      [] side = "top"    -> QSub(obj.y, other.y)

\* const gap = ... of each of the four tests
SideGap(side, obj, other) ==
    CASE side = "right"  -> QSub(other.x, QAdd(obj.x, obj.width))
      [] side = "left"   -> QSub(obj.x, QAdd(other.x, other.width))
      [] side = "bottom" -> QSub(other.y, QAdd(obj.y, obj.depth))
      [] side = "top"    -> QSub(obj.y, QAdd(other.y, other.depth))

\* a faulty variant of the definition that follows: the first neighbour on
\* the side, not the closest
ClosestFirst(side, obj, others) ==
    LET cands == { i \in 1..Len(others) : OnSide(side, obj, others[i]) }
    IN  IF cands = {} THEN 0 ELSE CHOOSE i \in cands : \A j \in cands : i <= j

\* closestRight, closestLeft, closestBottom, closestTop: the index in others
\* of the first object with the least gap on that side, or 0 (the forEach
\* replaces the closest only by a strictly smaller gap)
Closest(side, obj, others) ==
    LET cands == { i \in 1..Len(others) : OnSide(side, obj, others[i]) }
    IN  IF cands = {} THEN 0
        ELSE CHOOSE i \in cands : \A j \in cands :
                 \/ QLt(SideGap(side, obj, others[i]), SideGap(side, obj, others[j]))
                 \/ /\ SideGap(side, obj, others[i]) = SideGap(side, obj, others[j])
                    /\ i <= j

\* a faulty variant of the definition that follows: the lines run along the
\* top and the left edge of the dragged object, not through its middle
NeighborLineAtCorner(side, obj, neighbor, metrics) ==
    LET pxX == QAdd(metrics.originX, QMul(obj.x, metrics.scale))
        pxY == QAdd(metrics.originY, QMul(obj.y, metrics.scale))
        pxW == QMul(obj.width, metrics.scale)
        pxH == QMul(obj.depth, metrics.scale)
        getX(m) == QAdd(metrics.originX, QMul(m, metrics.scale))
        getY(m) == QAdd(metrics.originY, QMul(m, metrics.scale))
        horizontal == side \in {"right", "left"}
    IN  [ side |-> side, neighbor |-> neighbor.id,
          text |-> ToFixed2(SideGap(side, obj, neighbor)),
          x1 |-> IF side = "right" THEN QAdd(pxX, pxW) ELSE pxX,
          y1 |-> IF side = "bottom" THEN QAdd(pxY, pxH) ELSE pxY,
          x2 |-> CASE side = "right" -> getX(neighbor.x)
                   [] side = "left" -> getX(QAdd(neighbor.x, neighbor.width))
                   [] OTHER -> pxX,
          y2 |-> CASE side = "bottom" -> getY(neighbor.y)
                   [] side = "top" -> getY(QAdd(neighbor.y, neighbor.depth))
                   [] OTHER -> pxY ]

\* the line drawDimensionLine draws for a side, given the closest neighbour:
\* from the edge of the dragged object, at the middle of that edge, to the
\* facing edge of the neighbour
NeighborLine(side, obj, neighbor, metrics) ==
    LET pxX == QAdd(metrics.originX, QMul(obj.x, metrics.scale))
        pxY == QAdd(metrics.originY, QMul(obj.y, metrics.scale))
        pxW == QMul(obj.width, metrics.scale)
        pxH == QMul(obj.depth, metrics.scale)
        cy == QAdd(pxY, QDiv(pxH, Z(2)))
        cx == QAdd(pxX, QDiv(pxW, Z(2)))
        getX(m) == QAdd(metrics.originX, QMul(m, metrics.scale))
        getY(m) == QAdd(metrics.originY, QMul(m, metrics.scale))
        text == ToFixed2(SideGap(side, obj, neighbor))
    IN  CASE side = "right" ->
               [ side |-> side, neighbor |-> neighbor.id, text |-> text,
                 x1 |-> QAdd(pxX, pxW), y1 |-> cy, x2 |-> getX(neighbor.x), y2 |-> cy ]
          [] side = "left" ->
               [ side |-> side, neighbor |-> neighbor.id, text |-> text,
                 x1 |-> pxX, y1 |-> cy,
                 x2 |-> getX(QAdd(neighbor.x, neighbor.width)), y2 |-> cy ]
          [] side = "bottom" ->
               [ side |-> side, neighbor |-> neighbor.id, text |-> text,
                 x1 |-> cx, y1 |-> QAdd(pxY, pxH), x2 |-> cx, y2 |-> getY(neighbor.y) ]
          [] side = "top" ->
               [ side |-> side, neighbor |-> neighbor.id, text |-> text,
                 x1 |-> cx, y1 |-> pxY,
                 x2 |-> cx, y2 |-> getY(QAdd(neighbor.y, neighbor.depth)) ]

\* "2. Dimensions to Neighbors": the lines of the sides that have a closest
\* neighbour, in the order they are drawn
RECURSIVE NeighborLines(_, _, _, _)
NeighborLines(sides, obj, others, metrics) ==
    IF sides = <<>> THEN <<>>
    ELSE LET closest == Closest(Head(sides), obj, others)
         IN  (IF closest = 0 THEN <<>>
              ELSE <<NeighborLine(Head(sides), obj, others[closest], metrics)>>)
                 \o NeighborLines(Tail(sides), obj, others, metrics)

\* a faulty variant of the definition that follows: the two lines carry each
\* other's value
WallLinesSwapped(obj, metrics) ==
    LET pxX == QAdd(metrics.originX, QMul(obj.x, metrics.scale))
        pxY == QAdd(metrics.originY, QMul(obj.y, metrics.scale))
        wallDimY == QAdd(QAdd(pxY, QMul(obj.depth, metrics.scale)), Z(OFFSET))
        wallDimX == QAdd(QAdd(pxX, QMul(obj.width, metrics.scale)), Z(OFFSET))
    IN  << [ axis |-> "x", text |-> ToFixed2(obj.y),
             x1 |-> metrics.originX, y1 |-> wallDimY, x2 |-> pxX, y2 |-> wallDimY ],
           [ axis |-> "y", text |-> ToFixed2(obj.x),
             x1 |-> wallDimX, y1 |-> metrics.originY, x2 |-> wallDimX, y2 |-> pxY ] >>

\* "1. Dimensions to Walls (Absolute)": the two lines drawDimensionLine draws
\* from the wall at the origin to the object
WallLines(obj, metrics) ==
    LET pxX == QAdd(metrics.originX, QMul(obj.x, metrics.scale))
        pxY == QAdd(metrics.originY, QMul(obj.y, metrics.scale))
        pxW == QMul(obj.width, metrics.scale)
        pxH == QMul(obj.depth, metrics.scale)
        wallDimY == QAdd(QAdd(pxY, pxH), Z(OFFSET))
        wallDimX == QAdd(QAdd(pxX, pxW), Z(OFFSET))
    IN  << [ axis |-> "x", text |-> ToFixed2(obj.x),
             x1 |-> metrics.originX, y1 |-> wallDimY, x2 |-> pxX, y2 |-> wallDimY ],
           [ axis |-> "y", text |-> ToFixed2(obj.y),
             x1 |-> wallDimX, y1 |-> metrics.originY, x2 |-> wallDimX, y2 |-> pxY ] >>

\* a faulty variant of the definition that follows: the dimension lines of a
\* hovered object are drawn too
DrawObjectHovered(obj, objects, metrics, dragT, hovered) ==
    LET annotated == MODE = "INDUSTRIAL" /\ (dragT = <<obj.id>> \/ hovered = obj.id)
    IN  [ id |-> obj.id,
          isDragged |-> dragT = <<obj.id>>,
          isHovered |-> hovered = obj.id,
          rect |-> [ x |-> QAdd(metrics.originX, QMul(obj.x, metrics.scale)),
                     y |-> QAdd(metrics.originY, QMul(obj.y, metrics.scale)),
                     w |-> QMul(obj.width, metrics.scale),
                     h |-> QMul(obj.depth, metrics.scale) ],
          wallLines |-> IF annotated THEN WallLines(obj, metrics) ELSE <<>>,
          neighborLines |-> IF annotated
                            THEN NeighborLines(Sides, obj, OtherObjects(objects, obj), metrics)
                            ELSE <<>> ]

\* the body of sortedForDrawing.forEach for one object: its rectangle and,
\* "when dragged ONLY", its dimension lines; dragT is <<>> or <<id>>
DrawObject(obj, objects, metrics, dragT, hovered) ==
    LET isDragged == dragT = <<obj.id>>
        isHovered == hovered = obj.id
        annotated == MODE = "INDUSTRIAL" /\ isDragged
    IN  [ id |-> obj.id,
          isDragged |-> isDragged,
          isHovered |-> isHovered,
          rect |-> [ x |-> QAdd(metrics.originX, QMul(obj.x, metrics.scale)),
                     y |-> QAdd(metrics.originY, QMul(obj.y, metrics.scale)),
                     w |-> QMul(obj.width, metrics.scale),
                     h |-> QMul(obj.depth, metrics.scale) ],
          wallLines |-> IF annotated THEN WallLines(obj, metrics) ELSE <<>>,
          neighborLines |-> IF annotated
                            THEN NeighborLines(Sides, obj, OtherObjects(objects, obj), metrics)
                            ELSE <<>> ]

\* the objects drawScene2D draws, in drawing order
DrawObjects(objects, metrics, dragT, hovered) ==
    LET sortedForDrawing == SortedForDrawing(objects)
    IN  [ k \in 1..Len(objects) |->
            DrawObject(sortedForDrawing[k], objects, metrics, dragT, hovered) ]

\* dragTarget?.id as <<>> or <<id>>
DragId(dt) == IF dt = <<>> THEN <<>> ELSE <<dt[1].id>>

\* a faulty variant of the definition that follows: the larger of the two
\* base scales is taken
SceneMetricsMax(d, t, width, height) ==
    LET availableWidth == QSub(width, Z(PADDING * 2))
        availableHeight == QSub(height, Z(PADDING * 2))
        baseScaleX == QDiv(availableWidth, OrOne(d.width))
        baseScaleY == QDiv(availableHeight, OrOne(d.length))
        baseScale == QMax(baseScaleX, baseScaleY)
        finalScale == QMul(baseScale, ScaleQ(t.scale))
        drawWidth == QMul(d.width, finalScale)
        drawLength == QMul(d.length, finalScale)
    IN  [ scale |-> finalScale,
          originX |-> QAdd(QDiv(QSub(width, drawWidth), Z(2)), Z(t.x)),
          originY |-> QAdd(QDiv(QSub(height, drawLength), Z(2)), Z(t.y)),
          drawWidth |-> drawWidth,
          drawLength |-> drawLength ]

\* the "Metrics" that open drawScene2D, for a canvas of width by height
SceneMetrics(d, t, width, height) ==
    LET availableWidth == QSub(width, Z(PADDING * 2))
        availableHeight == QSub(height, Z(PADDING * 2))
        baseScaleX == QDiv(availableWidth, OrOne(d.width))
        baseScaleY == QDiv(availableHeight, OrOne(d.length))
        baseScale == QMin(baseScaleX, baseScaleY)
        finalScale == QMul(baseScale, ScaleQ(t.scale))
        drawWidth == QMul(d.width, finalScale)
        drawLength == QMul(d.length, finalScale)
    IN  [ scale |-> finalScale,
          originX |-> QAdd(QDiv(QSub(width, drawWidth), Z(2)), Z(t.x)),
          originY |-> QAdd(QDiv(QSub(height, drawLength), Z(2)), Z(t.y)),
          drawWidth |-> drawWidth,
          drawLength |-> drawLength ]

\* a faulty variant of the definition that follows: no test of the site
DrawScene2DNoPlaceholder(d, t, dt, hovered, width, height) ==
    [ view |-> "2D", placeholder |-> FALSE, floor |-> TRUE, walls |-> TRUE,
      site |-> <<d.width, d.length>>,
      lighting |-> DrawLighting(d),
      objects |-> DrawObjects(GetObjects(d), SceneMetrics(d, t, width, height),
                                 DragId(dt), hovered) ]

\* what drawScene2D puts on the canvas: the placeholder message alone, or
\* the floor, the walls, the lighting and the objects
DrawScene2D(d, t, dt, hovered, width, height) ==
    IF QLe(d.width, Z(0)) \/ QLe(d.length, Z(0))
    THEN [ view |-> "2D", placeholder |-> TRUE, floor |-> FALSE, walls |-> FALSE,
           site |-> <<d.width, d.length>>,
           lighting |-> NoLighting, objects |-> <<>> ]
    ELSE [ view |-> "2D", placeholder |-> FALSE, floor |-> TRUE, walls |-> TRUE,
           site |-> <<d.width, d.length>>,
           lighting |-> DrawLighting(d),
           objects |-> DrawObjects(GetObjects(d), SceneMetrics(d, t, width, height),
                                 DragId(dt), hovered) ]

\* data.width || 10, data.length || 20
OrDefault(v, default) == IF v = Z(0) THEN Z(default) ELSE v

\* one object of drawScene3D: the footprint and the heights of its box
DrawBox(obj) ==
    [ id |-> obj.id, x |-> obj.x, y |-> obj.y, w |-> obj.width, d |-> obj.depth,
      el |-> obj.elevation, h |-> obj.height ]

\* what drawScene3D puts on the canvas: the floor of a site of w by l, the
\* objects and the wireframe of the walls; it draws no placeholder and no
\* lighting
DrawScene3D(d) ==
    LET sortedObjects == SortedObjects(GetObjects(d))
    IN  [ view |-> "3D", placeholder |-> FALSE, floor |-> TRUE,
          walls |-> MODE = "INDUSTRIAL",
          site |-> <<OrDefault(d.width, 10), OrDefault(d.length, 20)>>,
          lighting |-> NoLighting,
          objects |-> [ k \in 1..Len(sortedObjects) |-> DrawBox(sortedObjects[k]) ] ]

\* the render effect: it runs after every change of the state it reads
RenderEffect(vm, d, t, dt, hovered) ==
    IF vm = "3D" THEN DrawScene3D(d)
    ELSE DrawScene2D(d, t, dt, hovered, Z(CANVAS_WIDTH), Z(CANVAS_HEIGHT))

\* the width of the two canvases downloadImage draws the scenes on
REPORT_SCENE_WIDTH == 1200

\* downloadImage: the 2D scene, drawn with the default transform on a canvas
\* of the shape of the one on the page, and the 3D scene
DownloadImage(d, dt, hovered) ==
    LET drawingAspectRatio == Rat(CANVAS_HEIGHT, CANVAS_WIDTH)
    IN  [ scene2D |-> DrawScene2D(d, [scale |-> ScaleUnit, x |-> 0, y |-> 0], dt, hovered,
                                  Z(REPORT_SCENE_WIDTH),
                                  QMul(Z(REPORT_SCENE_WIDTH), drawingAspectRatio)),
          scene3D |-> DrawScene3D(d) ]

\* handleDownload (the button of the summary)
HandleDownload ==
    /\ currentStep = TOTAL_STEPS
    /\ report' = <<DownloadImage(data, dragTarget, hoveredBlockId)>>
    /\ UNCHANGED <<appVars, canvasVars, frame>>
    /\ last' = [op |-> "other", call |-> <<>>, info |-> <<"download">>]

----------------------------------------------------------------------------
(* IndustrialApp: the lighting form of step 2.                             *)

LightingUnchanged == UNCHANGED <<currentStep, summaryViewMode, inputMode, newRackDims, newMezzDims>>

\* the "hasLighting" checkbox
SetLightingActive(b) ==
    /\ currentStep = 2
    /\ data' = [data EXCEPT !.lighting.isActive = b]
    /\ LightingUnchanged

\* the fields below it are shown while lighting is active
SetOrientation(o) ==
    /\ currentStep = 2 /\ data.lighting.isActive
    /\ data' = [data EXCEPT !.lighting.orientation = o]
    /\ LightingUnchanged

SetLightingMode(m) ==
    /\ currentStep = 2 /\ data.lighting.isActive
    /\ data' = [data EXCEPT !.lighting.mode = m]
    /\ LightingUnchanged

SetLightingValue(v) ==
    /\ currentStep = 2 /\ data.lighting.isActive
    /\ data' = [data EXCEPT !.lighting.value = v]
    /\ LightingUnchanged

SetLightingOffset(v) ==
    /\ currentStep = 2 /\ data.lighting.isActive
    /\ data' = [data EXCEPT !.lighting.offset = v]
    /\ LightingUnchanged

SetFixturesPerProfile(v) ==
    /\ currentStep = 2 /\ data.lighting.isActive
    /\ data' = [data EXCEPT !.lighting.fixturesPerProfile = v]
    /\ LightingUnchanged

----------------------------------------------------------------------------
(* The specifications.                                                     *)

\* the state of the canvas when it is mounted
CanvasInit ==
    /\ dragTarget = <<>>
    /\ hoveredBlockId = Null
    /\ transform = [scale |-> ScaleUnit, x |-> 0, y |-> 0]
    /\ isPanning = FALSE
    /\ lastMousePos = [x |-> 0, y |-> 0]
    /\ zoomSteps = 0
    /\ wheelSteps = 0
    /\ last = Note("other", <<>>, <<"none">>)

Init ==
    /\ currentStep = 1
    /\ data = DEFAULT_PROJECT
    /\ summaryViewMode = "2D"
    /\ inputMode = "RACK"
    /\ newRackDims = [w |-> <<6, 5>>, d |-> Z(1), h |-> Z(2)]
    /\ newMezzDims = [w |-> Z(5), d |-> Z(5), el |-> Z(3)]
    /\ CanvasInit
    /\ frame = RenderEffect("3D", data, transform, dragTarget, hoveredBlockId)
    /\ report = <<>>

\* a handler of IndustrialApp: the canvas keeps its own state
App(A) ==
    /\ A
    /\ UNCHANGED canvasVars
    /\ last' = Note("other", <<>>, <<"none">>)

\* a faulty variant of the definition that follows: the hovered object is
\* not among the dependencies of the effect
RenderedNoHover ==
    /\ frame' = IF /\ currentStep' = currentStep /\ summaryViewMode' = summaryViewMode
                   /\ data' = data /\ transform' = transform
                   /\ dragTarget' = dragTarget
                THEN frame
                ELSE RenderEffect(CanvasViewMode(currentStep', summaryViewMode'), data',
                                  transform', dragTarget', hoveredBlockId')
    /\ report' = report

\* the render effect follows every handler that changes what it reads (the
\* view mode, the project, the transform, the drag session, the hovered
\* object); a handler that changes none of these leaves the same picture.
\* No handler but handleDownload makes a report.
Rendered ==
    /\ frame' = IF /\ currentStep' = currentStep /\ summaryViewMode' = summaryViewMode
                   /\ data' = data /\ transform' = transform
                   /\ dragTarget' = dragTarget /\ hoveredBlockId' = hoveredBlockId
                THEN frame
                ELSE RenderEffect(CanvasViewMode(currentStep', summaryViewMode'), data',
                                  transform', dragTarget', hoveredBlockId')
    /\ report' = report

\* mouse-down events at the given points: either button used, with or
\* without the Alt key
DownEvents(points) ==
    { [clientX |-> p[1], clientY |-> p[2], button |-> b, altKey |-> a] :
        p \in points, b \in Buttons, a \in BOOLEAN }

\* events of the left button alone; handleMouseMove reads only the position
LeftEvents(points) ==
    { [clientX |-> p[1], clientY |-> p[2], button |-> 0, altKey |-> FALSE] :
        p \in points }

\* the wizard with its canvas: every step, the site, the storage objects and
\* the pointer on the canvas
Next ==
    /\ \/ App(NextStep)
       \/ App(PrevStep)
       \/ App(HandleNewProject)
       \/ \E v \in SiteDims : App(SetWidth(v))
       \/ \E v \in SiteDims : App(SetLength(v))
       \/ \E m \in {"2D", "3D"} : App(SetSummaryViewMode(m))
       \/ App(HandleAddObject)
       \/ \E i \in 1..Len(RackIds) : App(RemoveRack(RackIds[i]))
       \/ App(ResetStorage)
       \/ \E e \in DownEvents(DragPoints) : HandleMouseDown(e)
       \/ \E e \in LeftEvents(DragPoints) : HandleMouseMove(e)
       \/ HandleMouseUp
       \/ HandleMouseLeave
    /\ Rendered

Spec == Init /\ [][Next]_vars

\* the wizard at step 3 with a site of 10 m by 10 m, as SetWidth, SetLength
\* and two NextStep leave it, and the canvas as mounted
InitCanvas ==
    /\ currentStep = 3
    /\ data = [DEFAULT_PROJECT EXCEPT !.width = Z(10), !.length = Z(10)]
    /\ summaryViewMode = "2D"
    /\ inputMode = "RACK"
    /\ newRackDims = [w |-> <<6, 5>>, d |-> Z(1), h |-> Z(2)]
    /\ newMezzDims = [w |-> Z(5), d |-> Z(5), el |-> Z(3)]
    /\ CanvasInit
    /\ frame = RenderEffect("2D", data, transform, dragTarget, hoveredBlockId)
    /\ report = <<>>

ZoomWithin == zoomSteps + wheelSteps < MaxZoomSteps

\* step 3 of the wizard: the storage objects under the pointer, the wheel and
\* the zoom buttons
NextCanvas ==
    /\ \/ \E v \in RackWidthInputs : App(SetNewWidth(v))
       \/ App(HandleAddObject)
       \/ \E e \in LeftEvents(ClientPoints) : HandleMouseDown(e)
       \/ \E e \in LeftEvents(ClientPoints) : HandleMouseMove(e)
       \/ HandleMouseUp
       \/ HandleMouseLeave
       \/ \E dy \in WheelDeltas : HandleWheel(dy, ZoomWithin)
       \/ ZoomInClick(ZoomWithin)
       \/ ZoomOutClick(ZoomWithin)
       \/ ResetViewClick
    /\ Rendered

SpecCanvas == InitCanvas /\ [][NextCanvas]_vars

\* the view of the canvas alone: navigation, panning and zooming
NextView ==
    /\ \/ App(NextStep)
       \/ App(PrevStep)
       \/ \E e \in DownEvents(PanPoints) : HandleMouseDown(e)
       \/ \E e \in LeftEvents(PanPoints) : HandleMouseMove(e)
       \/ HandleMouseUp
       \/ HandleMouseLeave
       \/ \E dy \in WheelDeltas : HandleWheel(dy, wheelSteps < MaxWheelSteps)
       \/ ZoomInClick(zoomSteps < MaxViewZoomSteps)
       \/ ZoomOutClick(zoomSteps < MaxViewZoomSteps)
       \/ ResetViewClick
    /\ Rendered

SpecView == Init /\ [][NextView]_vars

\* values typed into the fields of steps 1 and 2 when the lighting is laid out
LightingSiteDims == {Z(0), Z(1), Z(10), Z(20)}
LightingValues == {Z(0), <<1, 200>>, Z(1), Z(3), Z(5), <<5, 2>>}
LightingOffsets == {Z(0), Z(2), Z(5), Z(12)}
FixtureCounts == {Z(0), <<1, 2>>, Z(1), <<5, 2>>, Z(3)}

\* steps 1 and 2 of the wizard: the site and its lighting
NextLighting ==
    /\ \/ App(NextStep)
       \/ App(PrevStep)
       \/ \E v \in LightingSiteDims : App(SetWidth(v))
       \/ \E v \in LightingSiteDims : App(SetLength(v))
       \/ \E b \in BOOLEAN : App(SetLightingActive(b))
       \/ \E o \in {"LONGITUDINAL", "TRANSVERSAL"} : App(SetOrientation(o))
       \/ \E m \in {"QUANTITY", "DISTANCE"} : App(SetLightingMode(m))
       \/ \E v \in LightingValues : App(SetLightingValue(v))
       \/ \E v \in LightingOffsets : App(SetLightingOffset(v))
       \/ \E v \in FixtureCounts : App(SetFixturesPerProfile(v))
    /\ Rendered

SpecLighting == Init /\ [][NextLighting]_vars

\* values typed into the width and the length field of the rack form
FormInputs == {Z(0), <<6, 5>>}

\* handleAddObject, the request noted with the answer of its acceptance test
AddRequest ==
    /\ HandleAddObject
    /\ UNCHANGED canvasVars
    /\ last' = Note("other", <<>>, <<"add", AddAccepted(NewBlock)>>)

\* the pictures of the wizard: the site, an object on it, every step with
\* its view, and the report of the summary
NextReport ==
    \/ /\ \/ App(NextStep)
          \/ App(PrevStep)
          \/ \E v \in SiteDims : App(SetWidth(v))
          \/ \E v \in SiteDims : App(SetLength(v))
          \/ \E b \in BOOLEAN : App(SetLightingActive(b))
          \/ \E m \in {"2D", "3D"} : App(SetSummaryViewMode(m))
          \/ \E v \in FormInputs : App(SetNewWidth(v))
          \/ \E v \in FormInputs : App(SetNewDepth(v))
          \/ AddRequest
          \/ App(ResetStorage)
       /\ Rendered
    \/ HandleDownload

SpecReport == Init /\ [][NextReport]_vars

\* the storage of the wizard: objects added, removed and cleared, and the
\* project begun anew
NextStorage ==
    /\ \/ App(NextStep)
       \/ App(PrevStep)
       \/ App(HandleNewProject)
       \/ \E v \in FormInputs : App(SetNewWidth(v))
       \/ App(AddObject(MaxStored))
       \/ \E i \in 1..Len(RackIds) : App(RemoveRack(RackIds[i]))
       \/ App(ResetStorage)
    /\ Rendered

SpecStorage == Init /\ [][NextStorage]_vars

\* the client position of the point (mx, my) of a site of 10 m by 10 m on
\* the canvas, with the transform of the mounted canvas: the scale is 58
\* pixels a metre, the origin (160, 60), and the canvas is shown at half size
\* at (10, 20)
AtMetres(mx, my) == <<90 + 29 * mx, 50 + 29 * my>>

\* the pointer positions the dimension lines are tried with
DimPoints == { AtMetres(1, 1), AtMetres(6, 1), AtMetres(9, 2), AtMetres(9, 5) }

\* a rack of 2 m by 2 m, as handleAddObject makes it with such a form after
\* n - 1 racks and a drag leaves it at (x, y)
RackAt(n, x, y) ==
    [ id |-> RackIds[n], type |-> "RACK", x |-> Z(x), y |-> Z(y),
      width |-> Z(2), depth |-> Z(2), height |-> Z(2), elevation |-> Z(0),
      label |-> <<"B", n>> ]

\* a mezzanine of 2 m by 2 m at 3 m above the floor, as handleAddObject
\* makes the first with such a form, the n-th object, and a drag leaves it
\* at (x, y)
MezzanineAt(n, x, y) ==
    [ id |-> RackIds[n], type |-> "MEZZANINE", x |-> Z(x), y |-> Z(y),
      width |-> Z(2), depth |-> Z(2), height |-> <<1, 5>>, elevation |-> Z(3),
      label |-> <<"M", 1>> ]

\* step 3 of the wizard with a site of 10 m by 10 m, a mezzanine and two
\* racks of 2 m by 2 m on it, as SetWidth, SetLength, two NextStep, the
\* fields of the two forms, HandleAddObject, RemoveRack of the first rack
\* and drags leave it, and the canvas as mounted
InitDims ==
    /\ currentStep = 3
    /\ data = [DEFAULT_PROJECT EXCEPT
                 !.width = Z(10), !.length = Z(10),
                 !.storage = [ isActive |-> TRUE,
                               racks |-> << MezzanineAt(1, 0, 0), RackAt(2, 5, 0), RackAt(3, 8, 4) >> ]]
    /\ summaryViewMode = "2D"
    /\ inputMode = "RACK"
    /\ newRackDims = [w |-> Z(2), d |-> Z(2), h |-> Z(2)]
    /\ newMezzDims = [w |-> Z(2), d |-> Z(2), el |-> Z(3)]
    /\ CanvasInit
    /\ frame = RenderEffect("2D", data, transform, dragTarget, hoveredBlockId)
    /\ report = <<>>

\* the pointer over the three objects: hovering, pressing and dragging
NextDims ==
    /\ \/ \E e \in LeftEvents(DimPoints) : HandleMouseDown(e)
       \/ \E e \in LeftEvents(DimPoints) : HandleMouseMove(e)
       \/ HandleMouseUp
       \/ HandleMouseLeave
    /\ Rendered

SpecDims == InitDims /\ [][NextDims]_vars

\* sites of step 3 (nextStep has put the larger dimension in width) and zoom
\* factors that the zoom buttons reach (0.5, 1, 1.44, 10)
MapSites == { <<Z(10), Z(4)>>, <<Z(10), Z(10)>>, <<<<25, 2>>, Z(10)>> }
MapScales == { MIN_SCALE, ScaleUnit, 1440, MAX_SCALE }

\* the pointer positions the mapping is tried with
MapPoints == { AtMetres(2, 2), AtMetres(4, 3) }

\* step 3 of the wizard with a rack of 2 m by 2 m at (1, 1) on a site, and
\* the canvas zoomed
InitMap ==
    /\ currentStep = 3
    /\ \E site \in MapSites :
         data = [DEFAULT_PROJECT EXCEPT
                   !.width = site[1], !.length = site[2],
                   !.storage = [ isActive |-> TRUE, racks |-> << RackAt(1, 1, 1) >> ]]
    /\ summaryViewMode = "2D"
    /\ inputMode = "RACK"
    /\ newRackDims = [w |-> Z(2), d |-> Z(2), h |-> Z(2)]
    /\ newMezzDims = [w |-> Z(5), d |-> Z(5), el |-> Z(3)]
    /\ dragTarget = <<>>
    /\ hoveredBlockId = Null
    /\ transform \in [scale : MapScales, x : {0}, y : {0}]
    /\ isPanning = FALSE
    /\ lastMousePos = [x |-> 0, y |-> 0]
    /\ zoomSteps = 0
    /\ wheelSteps = 0
    /\ last = Note("other", <<>>, <<"none">>)
    /\ frame = RenderEffect("2D", data, transform, dragTarget, hoveredBlockId)
    /\ report = <<>>

\* the pointer over the canvas of step 3: hovering, dragging and panning
NextMap ==
    /\ \/ \E e \in DownEvents(MapPoints) : HandleMouseDown(e)
       \/ \E e \in LeftEvents(MapPoints) : HandleMouseMove(e)
       \/ HandleMouseUp
       \/ HandleMouseLeave
       \/ ResetViewClick
    /\ Rendered

SpecMap == InitMap /\ [][NextMap]_vars

\* the pointer positions the views are tried with: on the rack and off it
ViewPoints == { AtMetres(2, 2), AtMetres(6, 5) }

\* step 3 of the wizard with a rack of 2 m by 2 m at (1, 1) on a site of
\* 10 m by 10 m, and the canvas as mounted
InitViews ==
    /\ currentStep = 3
    /\ data = [DEFAULT_PROJECT EXCEPT
                 !.width = Z(10), !.length = Z(10),
                 !.storage = [ isActive |-> TRUE, racks |-> << RackAt(1, 1, 1) >> ]]
    /\ summaryViewMode = "2D"
    /\ inputMode = "RACK"
    /\ newRackDims = [w |-> Z(2), d |-> Z(2), h |-> Z(2)]
    /\ newMezzDims = [w |-> Z(5), d |-> Z(5), el |-> Z(3)]
    /\ CanvasInit
    /\ frame = RenderEffect("2D", data, transform, dragTarget, hoveredBlockId)
    /\ report = <<>>

\* the pointer and the wheel over the canvas in the 2D and the 3D views of
\* the steps
NextViews ==
    /\ \/ App(NextStep)
       \/ App(PrevStep)
       \/ \E m \in {"2D", "3D"} : App(SetSummaryViewMode(m))
       \/ \E e \in DownEvents(ViewPoints) : HandleMouseDown(e)
       \/ \E e \in LeftEvents(ViewPoints) : HandleMouseMove(e)
       \/ HandleMouseUp
       \/ HandleMouseLeave
       \/ \E dy \in WheelDeltas : HandleWheel(dy, wheelSteps < MaxWheelSteps)
    /\ Rendered

SpecViews == InitViews /\ [][NextViews]_vars

----------------------------------------------------------------------------
(* The storage objects on the site (Spec).                                 *)

Racks == data.storage.racks

\* the footprint of an object lies within the site
InSite(obj, d) ==
    /\ QLe(Z(0), obj.x) /\ QLe(QAdd(obj.x, obj.width), d.width)
    /\ QLe(Z(0), obj.y) /\ QLe(QAdd(obj.y, obj.depth), d.length)

\* C1 as the claim states it: in every reachable state every placed object
\* satisfies 0 <= x, x + width <= site.width, 0 <= y and y + depth <=
\* site.length.
C1_Original == \A i \in 1..Len(Racks) : InSite(Racks[i], data)

----------------------------------------------------------------------------
(* The pointer sessions (Spec).                                            *)

DragActive == dragTarget # <<>>

\* C5: in every state and in either view mode, handling a pointer-up or a
\* pointer-leave event leaves no drag session (dragTarget = null) and no pan
\* session (isPanning = false) active.
C5_SessionsEnd ==
    last.op \in {"mouseUp", "mouseLeave"} => (dragTarget = <<>> /\ ~ isPanning)

\* the pointer left the canvas in 3D view while a drag session and a pan
\* session were active
C5_Witness ==
    /\ last.op = "mouseLeave"
    /\ last.info = <<"ended", TRUE, TRUE>>
    /\ viewMode = "3D"
    /\ dragTarget = <<>> /\ ~ isPanning

\* C6 as the claim states it: in no reachable state are a drag session and a
\* pan session active together, and the zoom scale does not change while a
\* drag or pan session is active.
C6_Original ==
    [][ /\ ~ (dragTarget' # <<>> /\ isPanning')
        /\ (DragActive \/ isPanning) => transform'.scale = transform.scale ]_vars

----------------------------------------------------------------------------
(* The move callback of a drag (SpecCanvas).                               *)

\* the last handler called onRackMove
MoveCalled == last.call # <<>>
MoveCall == last.call[1]
\* the object the call names: handleRackMove has put it at the position
MovedObject == Racks[FindById(Racks, MoveCall.id)]
\* the snapped position the handler clamped
SnappedX == last.info[2]
SnappedY == last.info[3]

\* an integer multiple of 0.5
OnGrid(v) == QIsInt(QMul(v, Z(2)))

\* C2 as amended: every x (every y) passed to the move callback during a
\* drag is an integer multiple of 0.5, or it is the limit site.width -
\* object.width (site.length - object.depth) the position was clamped to,
\* which need not be on the grid (site 10 m, object 1.2 m wide: 8.8).
C2_GridOrLimit ==
    MoveCalled =>
        /\ OnGrid(MoveCall.x) \/ MoveCall.x = QSub(data.width, MovedObject.width)
        /\ OnGrid(MoveCall.y) \/ MoveCall.y = QSub(data.length, MovedObject.depth)

\* an object 1.2 m wide dragged past the far wall of a site of 10 m is
\* reported at 8.8, an object dragged within the site on the grid
C2_Witness ==
    /\ MoveCalled
    /\ MovedObject.width = <<6, 5>> /\ data.width = Z(10)
    /\ SnappedX = Z(9) /\ MoveCall.x = <<44, 5>>
    /\ OnGrid(MoveCall.y)

\* C2 as the claim states it: every x and every y passed to the move
\* callback is an integer multiple of 0.5.
C2_Original == MoveCalled => (OnGrid(MoveCall.x) /\ OnGrid(MoveCall.y))

\* max(0, min(s, limit)), by cases
Within(s, limit) ==
    IF QLt(limit, s)
    THEN (IF QLt(limit, Z(0)) THEN Z(0) ELSE limit)
    ELSE (IF QLt(s, Z(0)) THEN Z(0) ELSE s)

\* C3: for an industrial drag the x passed to the move callback is
\* max(0, min(s, site.width - object.width)), s the snapped raw x, and
\* likewise y with site.length and object.depth; with width 2 and site.width
\* 10 a drag to x = -5 reports 0 and a drag to x = 9 reports 8.
C3_Clamped ==
    MoveCalled =>
        /\ MoveCall.x = Within(SnappedX, QSub(data.width, MovedObject.width))
        /\ MoveCall.y = Within(SnappedY, QSub(data.length, MovedObject.depth))
        /\ (MovedObject.width = Z(2) /\ data.width = Z(10)) =>
               /\ SnappedX = Z(-5) => MoveCall.x = Z(0)
               /\ SnappedX = Z(9) => MoveCall.x = Z(8)

\* the first example of C3: an object 2 m wide on a site of 10 m, dragged to
\* x = -5
C3_Witness ==
    /\ MoveCalled
    /\ MovedObject.width = Z(2) /\ data.width = Z(10)
    /\ SnappedX = Z(-5) /\ MoveCall.x = Z(0)

\* the second example of C3 happens as well: the same object dragged to x = 9
C3_SecondExample ==
    /\ MoveCalled
    /\ MovedObject.width = Z(2) /\ data.width = Z(10)
    /\ SnappedX = Z(9) /\ MoveCall.x = Z(8)

----------------------------------------------------------------------------
(* The view transform (SpecView).                                          *)

\* C4: after any sequence of wheel events, zoom-in and zoom-out clicks and
\* view resets the scale of the view transform stays within [0.5, 10]; the
\* pan offsets are never clamped: a pan step adds the pointer's movement to
\* them, whatever they are.
C4_ScaleWithin ==
    /\ [](2 * transform.scale >= ScaleUnit /\ transform.scale <= 10 * ScaleUnit)
    /\ [][ last'.info[1] = "pan" =>
             /\ transform'.x = transform.x + last'.info[2]
             /\ transform'.y = transform.y + last'.info[3] ]_vars

\* the view zoomed in to the limit of 10 and panned
C4_Witness ==
    /\ transform.scale = 10 * ScaleUnit
    /\ zoomSteps > 0
    /\ transform.x # 0

\* the lower limit is reached as well
C4_LowerLimit == 2 * transform.scale = ScaleUnit /\ zoomSteps > 0

----------------------------------------------------------------------------
(* The lighting layout (SpecLighting).                                     *)

\* the profile positions and the fixtures of the picture on the canvas
Positions == frame.lighting.profilePositions
FixturePoints == frame.lighting.fixtures

\* the picture on the canvas is the plan with its lighting layout
LayoutShown == frame.view = "2D" /\ ~ frame.placeholder /\ data.lighting.isActive

Lighting == data.lighting
LightingAxis == AxisLimit(data)
\* axisLimit - 2 * offset
Budget == QSub(LightingAxis, QMul(Z(2), Lighting.offset))

InDistanceMode == LayoutShown /\ Lighting.mode = "DISTANCE"
InQuantityMode == LayoutShown /\ Lighting.mode = "QUANTITY"

\* consecutive positions are gap apart
SpacedBy(positions, gap) ==
    \A i \in 1..(Len(positions) - 1) : QSub(positions[i + 1], positions[i]) = gap

\* C7: in distance mode with value > 0.01 and available = axisLimit -
\* 2*offset >= 0 the layout has floor(available/value) + 1 profiles, value
\* apart, the first at offset + (available - intervals*value)/2; the gap
\* before the first equals the gap after the last and every profile lies in
\* [offset, axisLimit - offset]; axisLimit 20, offset 2, value 5 gives 2.5,
\* 7.5, 12.5, 17.5.
C7_DistanceLayout ==
    (InDistanceMode /\ QLt(<<1, 100>>, Lighting.value) /\ QLe(Z(0), Budget)) =>
        LET intervals == QFloor(QDiv(Budget, Lighting.value))
            n == Len(Positions)
        IN  /\ n = intervals + 1
            /\ SpacedBy(Positions, Lighting.value)
            /\ QMul(Z(2), Positions[1]) =
                   QAdd(QMul(Z(2), Lighting.offset),
                        QSub(Budget, QMul(Z(intervals), Lighting.value)))
            /\ QSub(Positions[1], Lighting.offset) =
                   QSub(QSub(LightingAxis, Lighting.offset), Positions[n])
            /\ \A i \in 1..n : /\ QLe(Lighting.offset, Positions[i])
                               /\ QLe(Positions[i], QSub(LightingAxis, Lighting.offset))
            /\ (LightingAxis = Z(20) /\ Lighting.offset = Z(2) /\ Lighting.value = Z(5)) =>
                   Positions = << <<5, 2>>, <<15, 2>>, <<25, 2>>, <<35, 2>> >>

\* the example of C7 is on the canvas
C7_Witness ==
    /\ InDistanceMode
    /\ LightingAxis = Z(20) /\ Lighting.offset = Z(2) /\ Lighting.value = Z(5)
    /\ Positions = << <<5, 2>>, <<15, 2>>, <<25, 2>>, <<35, 2>> >>

\* the value profiles of quantity mode, from offset to axisLimit - offset
EvenlySpread ==
    /\ Z(Len(Positions)) = Lighting.value
    /\ Positions[1] = Lighting.offset
    /\ Positions[Len(Positions)] = QSub(LightingAxis, Lighting.offset)
    /\ SpacedBy(Positions, QDiv(Budget, QSub(Lighting.value, Z(1))))

\* C8 as amended: in quantity mode value = 1 yields exactly one profile at
\* axisLimit/2, whatever the offset; a whole value > 1 yields exactly value
\* profiles spaced by (axisLimit - 2*offset)/(value - 1), the first at offset
\* and the last at axisLimit - offset; a value > 1 that is not whole yields
\* floor(value) + 1 profiles at that spacing from offset on, the last of them
\* past axisLimit - offset by a part of one spacing.
C8_QuantityLayout ==
    InQuantityMode =>
        /\ Lighting.value = Z(1) => Positions = <<QDiv(LightingAxis, Z(2))>>
        /\ (QLt(Z(1), Lighting.value) /\ QIsInt(Lighting.value)) => EvenlySpread
        /\ (QLt(Z(1), Lighting.value) /\ ~ QIsInt(Lighting.value)) =>
               /\ Len(Positions) = QFloor(Lighting.value) + 1
               /\ Positions[1] = Lighting.offset
               /\ SpacedBy(Positions, QDiv(Budget, QSub(Lighting.value, Z(1))))

\* three profiles spread over 10 m with an offset of 2 m
C8_Witness ==
    /\ InQuantityMode
    /\ Lighting.value = Z(3) /\ Lighting.offset = Z(2) /\ LightingAxis = Z(10)
    /\ Positions = <<Z(2), Z(5), Z(8)>>

\* a value of 2.5 gives three profiles, the last past axisLimit - offset
C8_NotWhole ==
    /\ InQuantityMode
    /\ Lighting.value = <<5, 2>> /\ Lighting.offset = Z(2) /\ LightingAxis = Z(20)
    /\ Positions = <<Z(2), <<38, 3>>, <<70, 3>>>>

\* C8 as the claim states it: value = 1 yields one profile at axisLimit/2 and
\* every value > 1 yields exactly value profiles evenly spaced, the first at
\* offset and the last at axisLimit - offset.
C8_Original ==
    InQuantityMode =>
        /\ Lighting.value = Z(1) => Positions = <<QDiv(LightingAxis, Z(2))>>
        /\ QLt(Z(1), Lighting.value) => EvenlySpread

\* C9 as amended: in quantity mode with value = 3, offset = 2 and axisLimit =
\* 20 the profile positions are 2, 10 and 18.
C9_QuantityExample ==
    (InQuantityMode /\ Lighting.value = Z(3) /\ Lighting.offset = Z(2) /\ LightingAxis = Z(20)) =>
        Positions = <<Z(2), Z(10), Z(18)>>

C9_Witness ==
    /\ InQuantityMode /\ Lighting.value = Z(3) /\ Lighting.offset = Z(2) /\ LightingAxis = Z(20)
    /\ Len(Positions) = 3

\* C9 as the claim states it: the positions are 2, 11 and 20.
C9_Original ==
    (InQuantityMode /\ Lighting.value = Z(3) /\ Lighting.offset = Z(2) /\ LightingAxis = Z(20)) =>
        Positions = <<Z(2), Z(11), Z(20)>>

NoProfiles == Positions = <<>> /\ FixturePoints = <<>>

\* C10 as amended: the layout has no profile and no fixture, and nothing is
\* raised, when the lighting value is not positive (either mode), when it is
\* below 1 in quantity mode, and in distance mode when it is at most 0.01 or
\* axisLimit - 2*offset < 0.  (In quantity mode the offset budget is not
\* looked at, and in distance mode a budget of exactly 0 gives one profile.)
C10_EmptyLayout ==
    LayoutShown =>
        /\ QLe(Lighting.value, Z(0)) => NoProfiles
        /\ (Lighting.mode = "QUANTITY" /\ QLt(Lighting.value, Z(1))) => NoProfiles
        /\ (Lighting.mode = "DISTANCE" /\ QLe(Lighting.value, <<1, 100>>)) => NoProfiles
        /\ (Lighting.mode = "DISTANCE" /\ QLt(Budget, Z(0))) => NoProfiles

\* an empty layout, although fixtures were asked for, with a value of 0
C10_Witness ==
    /\ LayoutShown /\ NoProfiles /\ QLt(Z(0), Lighting.fixturesPerProfile)
    /\ Lighting.value = Z(0)

\* an empty layout in distance mode with a budget below 0
C10_NoBudget ==
    /\ InDistanceMode /\ NoProfiles /\ QLt(Z(0), Lighting.fixturesPerProfile)
    /\ QLt(<<1, 100>>, Lighting.value) /\ QLt(Budget, Z(0))

\* C10 as the claim states it: in either mode a value that is not positive
\* or a budget axisLimit - 2*offset <= 0 leaves zero profiles and no fixtures.
C10_Original ==
    (LayoutShown /\ (QLe(Lighting.value, Z(0)) \/ QLe(Budget, Z(0)))) => NoProfiles

----------------------------------------------------------------------------
(* The pictures of a site without dimensions (SpecReport).                 *)

\* site.width <= 0 or site.length <= 0, of the project and of a scene drawn
SiteUndefined == QLe(data.width, Z(0)) \/ QLe(data.length, Z(0))
DrawnUndefined(scene) == QLe(scene.site[1], Z(0)) \/ QLe(scene.site[2], Z(0))

\* a scene with the background and the placeholder message alone
OnlyPlaceholder(scene) ==
    /\ scene.placeholder
    /\ ~ scene.floor /\ ~ scene.walls
    /\ scene.lighting = NoLighting
    /\ scene.objects = <<>>

\* a 3D scene of a site without dimensions: no placeholder, the floor and
\* the walls of a site of 10 m (width) or 20 m (length) in place of a
\* dimension of 0, and every object
Fallback3D(scene, d) ==
    /\ ~ scene.placeholder /\ scene.floor /\ scene.walls
    /\ scene.site = << IF d.width = Z(0) THEN Z(10) ELSE d.width,
                       IF d.length = Z(0) THEN Z(20) ELSE d.length >>
    /\ Len(scene.objects) = Len(d.storage.racks)

----------------------------------------------------------------------------
(* The dimension lines of the dragged object (SpecDims).                   *)

\* the drawing of the object of the drag session, if it is drawn
DraggedDrawn == { k \in 1..Len(frame.objects) : frame.objects[k].isDragged }

\* the lines drawn on the given side of the object of the drag session
DrawnOn(side) ==
    { l \in UNION { { frame.objects[k].neighborLines[n] :
                        n \in 1..Len(frame.objects[k].neighborLines) } : k \in DraggedDrawn } :
        l.side = side }

\* the object of the drag session, if it is among the objects
DraggedRacks == { i \in 1..Len(Racks) : dragTarget # <<>> /\ Racks[i].id = dragTarget[1].id }

\* the ranges [a0, a1] and [b0, b1] have a point in common
RangesMeet(a0, a1, b0, b1) == QLe(QMax(a0, b0), QMin(a1, b1))

\* C12: for any two objects A and B whose Y-ranges overlap, B entirely to the
\* right of A, the gap to the right computed for A against B and the gap to
\* the left computed for B against A are both B.x - (A.x + A.width); it is
\* the value on the line drawn to the right of A when A is dragged and B is
\* its closest neighbour there, and on the line drawn to the left of B when B
\* is dragged and A is its closest neighbour there; for A at (0, 0) and B at
\* (5, 0), both 2 m by 2 m, it is 3.
C12_GapSymmetry ==
    \A i \in 1..Len(Racks), j \in 1..Len(Racks) :
        LET A == Racks[i]
            B == Racks[j]
            gap == QSub(B.x, QAdd(A.x, A.width))
        IN  ( /\ i # j
              /\ RangesMeet(A.y, QAdd(A.y, A.depth), B.y, QAdd(B.y, B.depth))
              /\ QLe(QAdd(A.x, A.width), B.x) ) =>
            /\ OnSide("right", A, B) /\ SideGap("right", A, B) = gap
            /\ OnSide("left", B, A) /\ SideGap("left", B, A) = gap
            /\ (i \in DraggedRacks) =>
                   \E l \in DrawnOn("right") :
                       /\ QLe(l.text, ToFixed2(gap))
                       /\ l.neighbor = B.id => l.text = ToFixed2(gap)
            /\ (j \in DraggedRacks) =>
                   \E l \in DrawnOn("left") :
                       /\ QLe(l.text, ToFixed2(gap))
                       /\ l.neighbor = A.id => l.text = ToFixed2(gap)
            /\ (A.x = Z(0) /\ A.width = Z(2) /\ B.x = Z(5)) => gap = Z(3)

\* B at (5, 0) is dragged, A is at (0, 0), and the line to the left of B
\* reads 3
C12_Witness ==
    /\ \E i \in 1..Len(Racks) : Racks[i].id = "r1" /\ Racks[i].x = Z(0) /\ Racks[i].y = Z(0)
    /\ \E j \in DraggedRacks : Racks[j].id = "r2" /\ Racks[j].x = Z(5) /\ Racks[j].y = Z(0)
    /\ \E l \in DrawnOn("left") : l.neighbor = "r1" /\ l.text = Z(3)

\* B is adjacent to A on the side: the ranges on the other axis overlap
\* within the tolerance of 0.05 m and the facing edges do not overlap
Adjacent(side, A, B) ==
    LET tolerance == <<1, 20>>
        within(a0, a1, b0, b1) == QLt(QSub(QMax(a0, b0), QMin(a1, b1)), tolerance)
        sameRow == within(A.y, QAdd(A.y, A.depth), B.y, QAdd(B.y, B.depth))
        sameColumn == within(A.x, QAdd(A.x, A.width), B.x, QAdd(B.x, B.width))
    IN  CASE side = "right"  -> sameRow /\ QLe(QAdd(A.x, A.width), B.x)
          [] side = "left"   -> sameRow /\ QLe(QAdd(B.x, B.width), A.x)
          [] side = "bottom" -> sameColumn /\ QLe(QAdd(A.y, A.depth), B.y)
          [] side = "top"    -> sameColumn /\ QLe(QAdd(B.y, B.depth), A.y)

\* the distance between the facing edges of A and of B, adjacent on the side
EdgeDistance(side, A, B) ==
    CASE side = "right"  -> QSub(B.x, QAdd(A.x, A.width))
      [] side = "left"   -> QSub(A.x, QAdd(B.x, B.width))
      [] side = "bottom" -> QSub(B.y, QAdd(A.y, A.depth))
      [] side = "top"    -> QSub(A.y, QAdd(B.y, B.depth))

\* the other objects adjacent to Racks[i] on the side
AdjacentTo(i, side) ==
    { j \in 1..Len(Racks) : Racks[j].id # Racks[i].id /\ Adjacent(side, Racks[i], Racks[j]) }

\* the number of lines drawn on the side of the object of the drag session
LinesOn(side) ==
    Cardinality({ <<k, n>> \in DraggedDrawn \X (1..4) :
                    /\ n <= Len(frame.objects[k].neighborLines)
                    /\ frame.objects[k].neighborLines[n].side = side })

\* C13: for the dragged object and each side, a side with no adjacent object
\* has no line and a side with one has exactly one line; the gap it shows is
\* the least edge-to-edge distance over the objects adjacent on that side
\* and is never negative; at most four neighbour lines are drawn.
C13_ClosestPerSide ==
    \A i \in DraggedRacks :
        /\ \A k \in DraggedDrawn : Len(frame.objects[k].neighborLines) <= 4
        /\ \A side \in {"left", "right", "top", "bottom"} :
             IF AdjacentTo(i, side) = {}
             THEN LinesOn(side) = 0
             ELSE /\ LinesOn(side) = 1
                  /\ \A l \in DrawnOn(side) :
                       /\ QLe(Z(0), l.text)
                       /\ \E j \in AdjacentTo(i, side) :
                            /\ l.neighbor = Racks[j].id
                            /\ l.text = ToFixed2(EdgeDistance(side, Racks[i], Racks[j]))
                       /\ \A j \in AdjacentTo(i, side) :
                            QLe(l.text, ToFixed2(EdgeDistance(side, Racks[i], Racks[j])))

\* the dragged object has two objects adjacent on one side, the farther one
\* first in the collection, and the line shows the gap to the nearer one
C13_Witness ==
    \E i \in DraggedRacks : \E side \in {"left", "right", "top", "bottom"} :
        \E j \in AdjacentTo(i, side), n \in AdjacentTo(i, side) :
            /\ j < n
            /\ QLt(EdgeDistance(side, Racks[i], Racks[n]), EdgeDistance(side, Racks[i], Racks[j]))
            /\ \E l \in DrawnOn(side) : l.neighbor = Racks[n].id

\* the pixel of a position in metres on the canvas
PixelX(m) == QAdd(GetMetrics(data, transform).originX, QMul(m, GetMetrics(data, transform).scale))
PixelY(m) == QAdd(GetMetrics(data, transform).originY, QMul(m, GetMetrics(data, transform).scale))

\* the object with the id
RackOf(id) == Racks[CHOOSE i \in 1..Len(Racks) : Racks[i].id = id]

\* the middle of the range that [a0, a1] and [b0, b1] have in common
MidOverlap(a0, a1, b0, b1) == QDiv(QAdd(QMax(a0, b0), QMin(a1, b1)), Z(2))

\* the line is level (left, right) or upright (top, bottom) at the position
\* in metres on the other axis
AnchoredAt(l, m) ==
    IF l.side \in {"left", "right"}
    THEN l.y1 = PixelY(m) /\ l.y2 = PixelY(m)
    ELSE l.x1 = PixelX(m) /\ l.x2 = PixelX(m)

\* C14, amended: each neighbour line of the dragged object is anchored, on
\* the perpendicular axis, at the middle of the dragged object's own edge
\* (y + depth/2 for the lines to the left and right, x + width/2 for the
\* lines to the top and bottom), whatever the range in which the object and
\* the neighbour overlap; it runs from that edge to the facing edge of the
\* neighbour.
C14_AnchoredAtMiddle ==
    \A i \in DraggedRacks : \A side \in {"left", "right", "top", "bottom"} :
        \A l \in DrawnOn(side) :
            LET A == Racks[i]
                B == RackOf(l.neighbor)
            IN  /\ AnchoredAt(l, IF side \in {"left", "right"}
                                 THEN QAdd(A.y, QDiv(A.depth, Z(2)))
                                 ELSE QAdd(A.x, QDiv(A.width, Z(2))))
                /\ CASE side = "right"  -> l.x1 = PixelX(QAdd(A.x, A.width)) /\ l.x2 = PixelX(B.x)
                     [] side = "left"   -> l.x1 = PixelX(A.x) /\ l.x2 = PixelX(QAdd(B.x, B.width))
                     [] side = "bottom" -> l.y1 = PixelY(QAdd(A.y, A.depth)) /\ l.y2 = PixelY(B.y)
                     [] side = "top"    -> l.y1 = PixelY(A.y) /\ l.y2 = PixelY(QAdd(B.y, B.depth))

\* a line is drawn to a neighbour whose range overlaps the dragged object's
\* in part, so that the middle of the overlap is not the middle of the edge
C14_Witness ==
    \E i \in DraggedRacks : \E l \in DrawnOn("right") :
        LET A == Racks[i]
            B == RackOf(l.neighbor)
        IN  /\ QLt(A.y, B.y) /\ QLt(B.y, QAdd(A.y, A.depth))
            /\ l.y1 = PixelY(QAdd(A.y, QDiv(A.depth, Z(2))))

\* C14 as the claim states it: each neighbour line is anchored at the
\* midpoint of the range in which the dragged object and the selected
\* neighbour overlap.
C14_Original ==
    \A i \in DraggedRacks : \A side \in {"left", "right", "top", "bottom"} :
        \A l \in DrawnOn(side) :
            LET A == Racks[i]
                B == RackOf(l.neighbor)
            IN  AnchoredAt(l, IF side \in {"left", "right"}
                              THEN MidOverlap(A.y, QAdd(A.y, A.depth), B.y, QAdd(B.y, B.depth))
                              ELSE MidOverlap(A.x, QAdd(A.x, A.width), B.x, QAdd(B.x, B.width)))

\* the wall lines drawn for the object of the drag session
WallDrawn(axis) ==
    { l \in UNION { { frame.objects[k].wallLines[n] :
                        n \in 1..Len(frame.objects[k].wallLines) } : k \in DraggedDrawn } :
        l.axis = axis }

\* C15, amended: the dragged object gets two wall dimensions, whether or not
\* it has neighbours: one reads x, the distance from the wall at x = 0 to the
\* object's left edge, and runs between the two 35 pixels below the object;
\* the other reads y, the distance from the wall at y = 0 to the object's top
\* edge, and runs between the two 35 pixels to the right of the object.  The
\* walls at x = site.width and y = site.length are never measured to.
C15_WallDistances ==
    \A i \in DraggedRacks :
        LET A == Racks[i]
        IN  /\ \A k \in DraggedDrawn : Len(frame.objects[k].wallLines) = 2
            /\ \E l \in WallDrawn("x") : TRUE
            /\ \E l \in WallDrawn("y") : TRUE
            /\ \A l \in WallDrawn("x") :
                 /\ l.text = ToFixed2(A.x)
                 /\ l.x1 = PixelX(Z(0)) /\ l.x2 = PixelX(A.x)
                 /\ l.y1 = QAdd(PixelY(QAdd(A.y, A.depth)), Z(35)) /\ l.y2 = l.y1
            /\ \A l \in WallDrawn("y") :
                 /\ l.text = ToFixed2(A.y)
                 /\ l.y1 = PixelY(Z(0)) /\ l.y2 = PixelY(A.y)
                 /\ l.x1 = QAdd(PixelX(QAdd(A.x, A.width)), Z(35)) /\ l.x2 = l.x1

\* the dragged object is nearer to the wall at x = site.width than to the
\* wall at x = 0, it has a neighbour, and its wall dimension reads x
C15_Witness ==
    \E i \in DraggedRacks :
        /\ QLt(QSub(QSub(data.width, Racks[i].x), Racks[i].width), Racks[i].x)
        /\ \E side \in {"left", "right", "top", "bottom"} : DrawnOn(side) # {}
        /\ \E l \in WallDrawn("x") : l.text = ToFixed2(Racks[i].x)

\* the dragged object has no neighbour on any side, and its two wall
\* dimensions are drawn
C15_NoNeighbour ==
    \E i \in DraggedRacks :
        /\ \A side \in {"left", "right", "top", "bottom"} : DrawnOn(side) = {}
        /\ WallDrawn("x") # {} /\ WallDrawn("y") # {}

\* C15 as the claim states it: the two wall dimensions measure the distance
\* to the nearest site boundary on each axis, min(x, site.width - x - width)
\* and min(y, site.length - y - depth).
C15_Original ==
    \A i \in DraggedRacks :
        LET A == Racks[i]
        IN  /\ \A l \in WallDrawn("x") :
                 l.text = ToFixed2(QMin(A.x, QSub(QSub(data.width, A.x), A.width)))
            /\ \A l \in WallDrawn("y") :
                 l.text = ToFixed2(QMin(A.y, QSub(QSub(data.length, A.y), A.depth)))

\* the drawing of an object carries wall or neighbour dimension lines
Annotated(o) == o.wallLines # <<>> \/ o.neighborLines # <<>>

\* C16: in the industrial 2D view an object is drawn with wall-distance and
\* neighbour-gap lines if and only if it is the object of the active drag
\* session; an object that is only hovered, and every other object, is drawn
\* without any.
C16_DraggedOnly ==
    frame.view = "2D" =>
        \A k \in 1..Len(frame.objects) :
            LET o == frame.objects[k]
            IN  /\ Annotated(o) <=> (dragTarget # <<>> /\ dragTarget[1].id = o.id)
                /\ Annotated(o) => (o.isDragged /\ Len(o.wallLines) = 2)
                /\ (o.isHovered /\ ~ o.isDragged) => ~ Annotated(o)

\* one object is dragged and drawn with its lines while another is hovered
\* and drawn without any
C16_Witness ==
    /\ frame.view = "2D"
    /\ \E k \in 1..Len(frame.objects) :
         frame.objects[k].isDragged /\ Annotated(frame.objects[k])
    /\ \E k \in 1..Len(frame.objects) :
         /\ frame.objects[k].isHovered /\ ~ frame.objects[k].isDragged
         /\ hoveredBlockId = frame.objects[k].id
         /\ ~ Annotated(frame.objects[k])

----------------------------------------------------------------------------
(* The acceptance test of handleAddObject (SpecReport).                    *)

\* the width and the depth of the form of the current input mode
FormWidth == IF inputMode = "MEZZANINE" THEN newMezzDims.w ELSE newRackDims.w
FormDepth == IF inputMode = "MEZZANINE" THEN newMezzDims.d ELSE newRackDims.d

\* C17: an add-object request with width <= 0 or depth <= 0 is rejected: it
\* creates no object and leaves the state of the wizard as it was; every
\* other request appends one object; so every placed object has width > 0
\* and depth > 0 in every reachable state.
C17_AddRejected ==
    /\ [](\A i \in 1..Len(data.storage.racks) :
            /\ QLt(Z(0), data.storage.racks[i].width)
            /\ QLt(Z(0), data.storage.racks[i].depth))
    /\ [][ last'.info[1] = "add" =>
             /\ last'.info[2] <=> (QLt(Z(0), FormWidth) /\ QLt(Z(0), FormDepth))
             /\ IF last'.info[2]
                THEN Len(data'.storage.racks) = Len(data.storage.racks) + 1
                ELSE UNCHANGED appVars ]_vars

\* a request with a depth of 0 and a positive width was made and rejected
C17_Witness ==
    /\ last.info = <<"add", FALSE>>
    /\ QLt(Z(0), FormWidth) /\ FormDepth = Z(0)
    /\ data.storage.racks = <<>>

----------------------------------------------------------------------------
(* A drag session whose object was removed (Spec).                         *)

\* the object of the active drag session is no longer among the objects
Orphaned == dragTarget # <<>> /\ \A i \in 1..Len(Racks) : Racks[i].id # dragTarget[1].id

\* C18: when the object of the active drag session is no longer in the
\* collection, a pointer-move invokes no move callback and changes no
\* object; the move callback is only ever invoked for an object of the
\* collection.
C18_OrphanSkipped ==
    /\ [](MoveCalled => \E i \in 1..Len(Racks) : Racks[i].id = MoveCall.id)
    /\ [][ (last'.op = "mouseMove" /\ Orphaned) =>
              (last'.call = <<>> /\ data' = data) ]_vars
    /\ [][ last'.info = <<"skipped">> =>
              (Orphaned /\ last'.call = <<>> /\ data' = data /\ dragTarget' = dragTarget) ]_vars

\* the pointer moved during a drag session whose object was removed, while
\* another object was on the site, and no callback was made
C18_Witness ==
    /\ last.info = <<"skipped">> /\ last.call = <<>>
    /\ Orphaned
    /\ Racks # <<>>

----------------------------------------------------------------------------
(* The interactivity flag (Spec).                                          *)

\* every object that is in the collection before and after the step has
\* kept its position
PositionsKept ==
    \A i \in 1..Len(data.storage.racks), j \in 1..Len(data'.storage.racks) :
        data.storage.racks[i].id = data'.storage.racks[j].id =>
            /\ data'.storage.racks[j].x = data.storage.racks[i].x
            /\ data'.storage.racks[j].y = data.storage.racks[i].y

\* C19: the interactivity flag is set at step 3 only, where the view is 2D;
\* a drag session is created, the hovered object is set and the move
\* callback is invoked only while the flag is set; at every other step no
\* step, hence no sequence of pointer events, changes the position of an
\* object.
C19_InteractiveOnly ==
    /\ [](currentStep = 3 => viewMode = "2D")
    /\ [](MoveCalled => (currentStep = 3 /\ viewMode = "2D"))
    /\ [][ (dragTarget' # <<>> /\ dragTarget' # dragTarget) => currentStep = 3 ]_vars
    /\ [][ hoveredBlockId' # hoveredBlockId => currentStep = 3 ]_vars
    /\ [][ currentStep # 3 => PositionsKept ]_vars
    /\ [][ last'.info = <<"ignored">> =>
             (currentStep # 3 /\ UNCHANGED <<data, dragTarget, hoveredBlockId>>) ]_vars

\* at step 4, in the 2D view, the pointer moved during a drag session that
\* began at step 3, and the object stayed where it was
C19_Witness ==
    /\ currentStep = 4 /\ viewMode = "2D"
    /\ last.info = <<"ignored">>
    /\ DraggedRacks # {}

----------------------------------------------------------------------------
(* The order of the collection of objects (SpecDims).                      *)

\* the collection in every order
Orders == { f \in [1..Len(Racks) -> 1..Len(Racks)] :
              \A a \in 1..Len(Racks), b \in 1..Len(Racks) : a # b => f[a] # f[b] }
Reordered(f) == [ k \in 1..Len(Racks) |-> Racks[f[k]] ]

\* the id of the object a pointer-down or a hover at the point selects in
\* the collection, or Null
Selected(objects, point) ==
    LET mouse == GetCanvasCoordinates([clientX |-> point[1], clientY |-> point[2]])
        hit == FindHit(objects, GetMetrics(data, transform), mouse.x, mouse.y)
    IN  IF hit = 0 THEN Null ELSE objects[hit].id

\* the objects of the collection the point lies on
Under(objects, point) ==
    LET mouse == GetCanvasCoordinates([clientX |-> point[1], clientY |-> point[2]])
    IN  { i \in 1..Len(objects) : Hit(objects[i], GetMetrics(data, transform), mouse.x, mouse.y) }

\* the ids of the objects in the order the 2D view draws the collection
DrawOrder(objects) ==
    [ k \in 1..Len(objects) |-> SortedForDrawing(objects)[k].id ]

\* the place of the object with the id in a sequence of ids
PlaceOf(ids, id) == CHOOSE k \in 1..Len(ids) : ids[k] = id

\* C20, amended: the order of the collection decides more than the default
\* labels.  A pointer-down or a hover selects, of the objects under the
\* pointer, the one that comes last in the collection, so a permutation
\* changes the selection only where objects overlap under the pointer; the
\* 2D view draws the objects by ascending elevation, objects of one
\* elevation in the order of the collection, so a permutation changes the
\* drawing order only among objects of equal elevation.
C20_OrderDecidesTies ==
    /\ frame.view = "2D" =>
         [ k \in 1..Len(frame.objects) |-> frame.objects[k].id ] = DrawOrder(Racks)
    /\ \A f \in Orders :
         LET P == Reordered(f)
         IN  /\ \A point \in DimPoints :
                  /\ Under(P, point) = {} <=> Selected(P, point) = Null
                  /\ \A i \in Under(P, point) :
                       (\A j \in Under(P, point) : j <= i) => Selected(P, point) = P[i].id
                  /\ Cardinality(Under(P, point)) <= 1 =>
                       Selected(P, point) = Selected(Racks, point)
             /\ \A a \in 1..Len(P), b \in 1..Len(P) :
                  \/ a >= b
                  \/ IF P[a].elevation = P[b].elevation
                     THEN PlaceOf(DrawOrder(P), P[a].id) < PlaceOf(DrawOrder(P), P[b].id)
                     ELSE (PlaceOf(DrawOrder(P), P[a].id) < PlaceOf(DrawOrder(P), P[b].id))
                              <=> QLt(P[a].elevation, P[b].elevation)
             /\ \A a \in 1..Len(Racks), b \in 1..Len(Racks) :
                  Racks[a].elevation # Racks[b].elevation =>
                      ( (PlaceOf(DrawOrder(P), Racks[a].id) < PlaceOf(DrawOrder(P), Racks[b].id))
                        <=> (PlaceOf(DrawOrder(Racks), Racks[a].id)
                                < PlaceOf(DrawOrder(Racks), Racks[b].id)) )

\* two objects lie under a point, the pointer hovers over the one that is
\* later in the collection, and in another order of the collection the
\* other one is selected there
C20_Witness ==
    \E point \in DimPoints : \E i \in Under(Racks, point), j \in Under(Racks, point) :
        /\ i < j
        /\ Selected(Racks, point) = Racks[j].id
        /\ hoveredBlockId = Racks[j].id
        /\ \E f \in Orders : Selected(Reordered(f), point) = Racks[i].id

\* C20 as the claim states it: permuting the collection changes neither the
\* object a pointer-down or hover selects nor the order in which the objects
\* are drawn.
C20_Original ==
    \A f \in Orders :
        /\ \A point \in DimPoints : Selected(Reordered(f), point) = Selected(Racks, point)
        /\ DrawOrder(Reordered(f)) = DrawOrder(Racks)

----------------------------------------------------------------------------
(* The move entry point (SpecDims).                                        *)

\* the project with the objects of another collection
WithRacks(d, racks) == [d EXCEPT !.storage.racks = racks]

\* the objects are those of before, but for the x and the y of the objects
\* with the id of the call
MovedOnly(call) ==
    /\ Len(Racks') = Len(Racks)
    /\ \A i \in 1..Len(Racks) :
         Racks'[i] = IF Racks[i].id = call.id
                     THEN [Racks[i] EXCEPT !.x = call.x, !.y = call.y]
                     ELSE Racks[i]
    /\ WithRacks(data', Racks) = data

\* the identifiers no object has
AbsentIds == { RackIds[n] : n \in 1..Len(RackIds) } \ { Racks[i].id : i \in 1..Len(Racks) }

\* C21: a handler of the canvas changes the project through onRackMove
\* alone, and the move (id, x, y) replaces the x and the y of the object
\* with that id: the other objects, the other fields of that object, the
\* order and the length of the collection and the rest of the project are
\* as before; a move with an id that no object has leaves the project as
\* it is.
C21_MoveOnly ==
    /\ [][ data' # data => last'.call # <<>> ]_vars
    /\ [][ last'.call # <<>> => MovedOnly(last'.call[1]) ]_vars
    /\ [](\A id \in AbsentIds : \A x \in {Z(0), <<7, 2>>} :
            HandleRackMove(data, id, x, Z(1)) = data)

\* a drag has moved one of three objects, and there are ids no object has
C21_Witness ==
    /\ last.call # <<>>
    /\ Len(Racks) = 3
    /\ \E i \in 1..Len(Racks) :
         /\ Racks[i].id = last.call[1].id
         /\ Racks[i].x = last.call[1].x /\ Racks[i].y = last.call[1].y
         /\ Racks[i].x # Z(IF i = 1 THEN 0 ELSE IF i = 2 THEN 5 ELSE 8)
    /\ AbsentIds # {}

----------------------------------------------------------------------------
(* What a render depends on (Spec).                                        *)

\* the four inputs of a render the specification names
Site(d) == <<d.width, d.length, d.ceilingHeight>>
FourInputs == <<Site(data), data.lighting, GetObjects(data), transform>>

\* a drag session of the same object, begun at the corner of the object
AtCorner(dt) ==
    IF dt = <<>> THEN <<>>
    ELSE << [id |-> dt[1].id, offsetX |-> Z(0), offsetY |-> Z(0)] >>

\* C22, amended: a render is a deterministic function of the view mode, the
\* site, the lighting, the objects, the view transform, the id of the
\* dragged object and the id of the hovered object.  The picture on the
\* canvas is always the one these values give, whatever handlers and renders
\* came before and whatever else the component holds (the offsets of the
\* drag session, the pan flag, the last mouse position); two renders with
\* the same values of them are the same picture.
C22_Deterministic ==
    /\ [](frame = RenderEffect(viewMode, data, transform, AtCorner(dragTarget), hoveredBlockId))
    /\ [][ ( /\ viewMode' = viewMode
             /\ FourInputs' = FourInputs
             /\ DragId(dragTarget') = DragId(dragTarget)
             /\ hoveredBlockId' = hoveredBlockId ) => frame' = frame ]_vars

\* the object on the canvas is drawn as dragged; the same site, lighting,
\* objects and transform without a drag session give another picture; and
\* the pointer has moved since the canvas was mounted
C22_Witness ==
    /\ frame.view = "2D"
    /\ \E k \in 1..Len(frame.objects) : frame.objects[k].isDragged
    /\ frame # RenderEffect(viewMode, data, transform, <<>>, hoveredBlockId)
    /\ last.op = "mouseMove"

\* C22 as the claim states it, for two renders in the same view mode, one
\* after the other: the same site, lighting, objects and view transform give
\* the same picture.
C22_Original ==
    [][ (viewMode' = viewMode /\ FourInputs' = FourInputs) => frame' = frame ]_vars

----------------------------------------------------------------------------
(* Metres and pixels (SpecMap).                                            *)

\* the metrics of the handlers and those of the renderer of the canvas
HandlerMetrics == GetMetrics(data, transform)
RendererMetrics == SceneMetrics(data, transform, Z(CANVAS_WIDTH), Z(CANVAS_HEIGHT))

\* distances from the walls the mapping is tried with
MapMetres == { Z(0), <<1, 10>>, <<7, 3>>, Z(4), <<25, 2>> }

SitePositive == QLt(Z(0), data.width) /\ QLt(Z(0), data.length)
ScaleValid == MIN_SCALE <= transform.scale /\ transform.scale <= MAX_SCALE

\* metres to pixels as the renderer maps them, and back as the drag handler
\* maps them
ThereAndBack(m, rendererOrigin, rendererScale, handlerOrigin, handlerScale) ==
    ToMeters(GetPx(rendererOrigin, rendererScale, m), handlerOrigin, handlerScale)

\* C23: for a site with positive dimensions, a view transform with a scale
\* in [0.5, 10] and a point (mx, my) within the site, the forward mapping
\* pixel = origin + meters * finalScale followed by the inverse mapping
\* meters = (pixel - origin) / finalScale of the drag handler gives (mx, my)
\* again, in the exact arithmetic of this module; the metrics of the
\* handler are those of the 2D renderer for the same transform, and the
\* corner of every rectangle on the canvas maps back to the position of its
\* object.
C23_RoundTrip ==
    (SitePositive /\ ScaleValid) =>
        \A h \in {HandlerMetrics}, r \in {RendererMetrics} :
            /\ h = r
            /\ \A mx \in MapMetres :
                 QLe(mx, data.width) =>
                     ThereAndBack(mx, r.originX, r.scale, h.originX, h.scale) = mx
            /\ \A my \in MapMetres :
                 QLe(my, data.length) =>
                     ThereAndBack(my, r.originY, r.scale, h.originY, h.scale) = my
            /\ \A k \in 1..Len(frame.objects) :
                 /\ ToMeters(frame.objects[k].rect.x, h.originX, h.scale)
                        = RackOf(frame.objects[k].id).x
                 /\ ToMeters(frame.objects[k].rect.y, h.originY, h.scale)
                        = RackOf(frame.objects[k].id).y

\* the view is zoomed and panned, a drag has put the object at another place
\* through the inverse mapping, and the object is drawn there
C23_Witness ==
    /\ SitePositive
    /\ transform.scale # ScaleUnit /\ transform.x # 0
    /\ last.call # <<>>
    /\ Len(frame.objects) = 1
    /\ RackOf(frame.objects[1].id).x # Z(1)
    /\ QLe(<<25, 2>>, data.width)

----------------------------------------------------------------------------
(* The site fits the canvas (SpecMap).                                     *)

\* the canvas of the page, the canvas of the report, and two more sizes
Viewports ==
    { <<Z(CANVAS_WIDTH), Z(CANVAS_HEIGHT)>>,
      <<Z(REPORT_SCENE_WIDTH), QMul(Z(REPORT_SCENE_WIDTH), Rat(CANVAS_HEIGHT, CANVAS_WIDTH))>>,
      <<Z(300), Z(700)>>, <<Z(1600), Z(400)>> }

FitsIn(metrics, viewport) ==
    /\ QLe(metrics.drawWidth, QSub(viewport[1], Z(2 * PADDING)))
    /\ QLe(metrics.drawLength, QSub(viewport[2], Z(2 * PADDING)))

\* C24: with a view scale of 1 and a site of positive dimensions, drawWidth
\* is at most pixelWidth - 2 * padding and drawLength at most
\* pixelHeight - 2 * padding (padding = 60), whatever the size of the
\* viewport and of the site.
C24_FitsViewport ==
    (transform.scale = ScaleUnit /\ SitePositive) =>
        \A viewport \in Viewports :
            FitsIn(SceneMetrics(data, transform, viewport[1], viewport[2]), viewport)

\* the view is back at scale 1 after a pan, the site is wider than long and
\* fills the height of the canvas but not its width
C24_Witness ==
    /\ transform.scale = ScaleUnit /\ SitePositive
    /\ data.width = <<25, 2>>
    /\ lastMousePos # [x |-> 0, y |-> 0]
    /\ frame.view = "2D" /\ ~ frame.placeholder
    /\ RendererMetrics.drawLength = Z(CANVAS_HEIGHT - 2 * PADDING)
    /\ QLt(RendererMetrics.drawWidth, Z(CANVAS_WIDTH - 2 * PADDING))

----------------------------------------------------------------------------
(* The profile lines and the fixtures on them (SpecLighting).              *)

ProfileLinesDrawn == frame.lighting.profileLines

WithinAxis(pos) == QLe(pos, LightingAxis)

\* C25: no profile line is drawn at a position greater than axisLimit; the
\* lines drawn are the computed positions that do not exceed axisLimit, in
\* both lighting modes and both orientations.
C25_LinesWithinAxis ==
    LayoutShown =>
        /\ \A k \in 1..Len(ProfileLinesDrawn) : QLe(ProfileLinesDrawn[k], LightingAxis)
        /\ ProfileLinesDrawn = SelectSeq(Positions, WithinAxis)

\* a computed position exceeds axisLimit and has no line, another one has
C25_Witness ==
    /\ LayoutShown
    /\ \E k \in 1..Len(Positions) : QLt(LightingAxis, Positions[k])
    /\ ProfileLinesDrawn # <<>>
    /\ Len(ProfileLinesDrawn) < Len(Positions)

\* the length of a profile, and where a fixture lies along and across it
ProfileLength == IF Lighting.orientation = "LONGITUDINAL" THEN data.length ELSE data.width
Along(f) == IF Lighting.orientation = "LONGITUDINAL" THEN f[2] ELSE f[1]
Across(f) == IF Lighting.orientation = "LONGITUDINAL" THEN f[1] ELSE f[2]

PerProfile == Lighting.fixturesPerProfile

\* the fixtures with a number, counted from 0, on the profile with a number
FixtureOn(k, i, count) == FixturePoints[(k - 1) * count + i + 1]

\* count fixtures on every profile, the i-th of a profile at the distance
\* AlongAt(i) from its end
FixturesLaid(count, AlongAt(_)) ==
    /\ Len(FixturePoints) = count * Len(Positions)
    /\ \A k \in 1..Len(Positions), i \in 0..(count - 1) :
         /\ Across(FixtureOn(k, i, count)) = Positions[k]
         /\ Along(FixtureOn(k, i, count)) = AlongAt(i)

AtMiddle(i) == QDiv(ProfileLength, Z(2))
AtMargin(i) == Z(1)
Spread(i) == QAdd(Z(1), QMul(Z(i), QDiv(QSub(ProfileLength, Z(2)), QSub(PerProfile, Z(1)))))

\* C26, amended: with fixturesPerProfile = n > 0 every computed profile
\* position carries the fixtures of the loop i < n.  For n = 1 that is one
\* fixture at the middle of the profile.  For a whole n > 1 they are n
\* fixtures evenly spaced, the first 1 m from one end and the last 1 m from
\* the other; they lie within [1, profileLength - 1] when the profile is at
\* least 2 m long, and on a shorter profile the last lies before the first.
\* For an n > 1 that is not whole they are floor(n) + 1 fixtures spaced
\* (profileLength - 2)/(n - 1) from 1 m on, and for n < 1 one fixture at 1 m.
C26_FixturesPerProfile ==
    (LayoutShown /\ QLt(Z(0), PerProfile)) =>
        /\ PerProfile = Z(1) => FixturesLaid(1, AtMiddle)
        /\ QLt(PerProfile, Z(1)) => FixturesLaid(1, AtMargin)
        /\ (QLt(Z(1), PerProfile) /\ QIsInt(PerProfile)) =>
               /\ FixturesLaid(PerProfile[1], Spread)
               /\ Spread(0) = Z(1)
               /\ Spread(PerProfile[1] - 1) = QSub(ProfileLength, Z(1))
               /\ \A i \in 0..(PerProfile[1] - 1) :
                    IF QLe(Z(2), ProfileLength)
                    THEN QLe(Z(1), Spread(i)) /\ QLe(Spread(i), QSub(ProfileLength, Z(1)))
                    ELSE QLe(Spread(i), Z(1)) /\ QLe(QSub(ProfileLength, Z(1)), Spread(i))
        /\ (QLt(Z(1), PerProfile) /\ ~ QIsInt(PerProfile)) =>
               FixturesLaid(QFloor(PerProfile) + 1, Spread)

\* three fixtures on each of several profiles of 10 m: at 1 m, 5 m and 9 m
C26_Witness ==
    /\ LayoutShown /\ PerProfile = Z(3) /\ ProfileLength = Z(10)
    /\ Len(Positions) > 1
    /\ Len(FixturePoints) = 3 * Len(Positions)
    /\ Along(FixturePoints[1]) = Z(1)
    /\ Along(FixturePoints[2]) = Z(5)
    /\ Along(FixturePoints[3]) = Z(9)

\* fixturesPerProfile = 2.5 puts three fixtures on a profile, the last of
\* them past profileLength - 1
C26_NotWhole ==
    /\ LayoutShown /\ PerProfile = <<5, 2>> /\ Positions # <<>>
    /\ Len(FixturePoints) = 3 * Len(Positions)
    /\ QLt(QSub(ProfileLength, Z(1)), Along(FixturePoints[3]))

\* C26 as the claim states it: every profile carries exactly n fixtures, for
\* n = 1 one at the middle, for n > 1 evenly spaced from 1 m to
\* profileLength - 1 and all within [1, profileLength - 1].
C26_Original ==
    (LayoutShown /\ QLt(Z(0), PerProfile)) =>
        /\ Z(Len(FixturePoints)) = QMul(PerProfile, Z(Len(Positions)))
        /\ PerProfile = Z(1) => FixturesLaid(1, AtMiddle)
        /\ QLt(Z(1), PerProfile) =>
               \A k \in 1..Len(FixturePoints) :
                   /\ QLe(Z(1), Along(FixturePoints[k]))
                   /\ QLe(Along(FixturePoints[k]), QSub(ProfileLength, Z(1)))

\* C28: every fixture is drawn on a profile line that is drawn; a position
\* discarded for exceeding axisLimit has no fixture.
C28_Original ==
    LayoutShown =>
        \A k \in 1..Len(FixturePoints) :
            \E j \in 1..Len(ProfileLinesDrawn) : Across(FixturePoints[k]) = ProfileLinesDrawn[j]

----------------------------------------------------------------------------
(* The drawing order of the 2D view (SpecDims).                            *)

\* the ids of the objects on the canvas, in the order they were drawn
DrawnIds == [ k \in 1..Len(frame.objects) |-> frame.objects[k].id ]

\* two objects lie over each other
Overlapping(a, b) ==
    /\ QLt(a.x, QAdd(b.x, b.width)) /\ QLt(b.x, QAdd(a.x, a.width))
    /\ QLt(a.y, QAdd(b.y, b.depth)) /\ QLt(b.y, QAdd(a.y, a.depth))

\* C27: in the 2D view every object is drawn once, and of two objects a and
\* b with a.elevation < b.elevation a is drawn before b, whatever their
\* places in the collection.
C27_LowerFirst ==
    frame.view = "2D" =>
        /\ Len(DrawnIds) = Len(Racks)
        /\ \A a \in 1..Len(Racks), b \in 1..Len(Racks) :
             QLt(Racks[a].elevation, Racks[b].elevation) =>
                 /\ \E k \in 1..Len(DrawnIds) : DrawnIds[k] = Racks[a].id
                 /\ \E k \in 1..Len(DrawnIds) : DrawnIds[k] = Racks[b].id
                 /\ PlaceOf(DrawnIds, Racks[a].id) < PlaceOf(DrawnIds, Racks[b].id)

\* the mezzanine comes first in the collection and is drawn last, over a
\* rack that a drag has put under it
C27_Witness ==
    /\ frame.view = "2D"
    /\ \E b \in 2..Len(Racks) :
         /\ QLt(Racks[b].elevation, Racks[1].elevation)
         /\ Overlapping(Racks[1], Racks[b])
         /\ PlaceOf(DrawnIds, Racks[b].id) < PlaceOf(DrawnIds, Racks[1].id)
    /\ DrawnIds[Len(DrawnIds)] = Racks[1].id
    /\ last.call # <<>>

----------------------------------------------------------------------------
(* The storage flag (SpecStorage).                                         *)

\* C29: after any sequence of add-object, remove-object, clear-all and
\* new-project, storage.isActive is true if and only if the collection of
\* objects is not empty.
C29_ActiveIffStored == data.storage.isActive <=> Len(Racks) > 0

\* two objects were added and the first of them removed: the second is left
\* and the storage is active
C29_Witness ==
    /\ Len(Racks) = 1
    /\ Racks[1].id = RackIds[2]
    /\ data.storage.isActive

----------------------------------------------------------------------------
(* The pointer and the wheel over the 3D view (SpecViews).                 *)

SessionKept == UNCHANGED <<transform, dragTarget, isPanning, hoveredBlockId>>

\* C30: while the view mode is 3D, pointer-down, pointer-move and wheel
\* events leave the view transform, the drag session, the pan flag and the
\* hovered object as they are and make no call of the move callback; of the
\* handlers of the canvas only the end of a session (pointer-up, pointer
\* leaving) changes any of them in the 3D view.
C30_Inert3D ==
    /\ [][ (viewMode = "3D" /\ last'.op \notin {"mouseUp", "mouseLeave"}) =>
               (SessionKept /\ last'.call = <<>> /\ data' = data) ]_vars
    /\ [][ last'.info[1] = "view3D" => (viewMode = "3D" /\ SessionKept) ]_vars

\* the wheel has turned over the 3D view of the summary while a drag session
\* and a pan session, begun in a 2D view, were open, and the pan of the 2D
\* view is kept
C30_Witness ==
    /\ viewMode = "3D" /\ currentStep = TOTAL_STEPS
    /\ last.info = <<"view3D", "wheel">>
    /\ dragTarget # <<>> /\ isPanning
    /\ transform.x # 0

============================================================================
